---------------------------- MODULE Spec2Model ----------------------------
(***************************************************************************)
(* Elevation band generation (scripts/build_elevation_band.py) and the     *)
(* legacy DEM generator (scripts/create_dem.py).                           *)
(*                                                                         *)
(* Angles are integers in tenths of a degree, so that the 0.2 degree       *)
(* max-box padding and the 1.0 degree GTOPO30 padding are both exact:      *)
(* 44.3 degrees is 443, -60.0 degrees is -600.  Floating-point rounding of *)
(* the Python source is not modelled, with one exception: a float too      *)
(* large to change when 360.0 is added to it (see Math.longitude_norm).    *)
(* Raster pixels are 16-bit signed integers.                               *)
(***************************************************************************)
EXTENDS Integers, Sequences, FiniteSets, TLC

VARIABLES
    pc,                \* position of the run inside generate() / the driver
    box,               \* bounding_{north,south}_latitude, bounding_{east,west}_longitude
    grid,              \* pixel_resolution_{x,y}, target_srs, {min,max}_{x,y}_extent
    catalog,           \* GLS catalog: the tiles whose .bil / .hdr files exist
    attempts,          \* sources attempted so far, in order
    caught,            \* exceptions caught by generate(), in order
    error,             \* the exception that ended the run ("none" while it runs)
    files,             \* artifacts present in the working directory
    elevation_source,  \* local variable elevation_source of generate()
    points_inside,     \* points_in_polygon of _verify_ramp_overlap
    gls_tile_list,     \* tile_list of generate_using_gls, as (lat, lon) pairs
    bil_list,          \* bil_list of generate_using_gls, as tile names
    missing_count,     \* missing_count of generate_using_gls
    gtopo30_todo,      \* tiles get_gtopo30_dems has still to copy and extract
    adjust_calls,      \* calls of adjust_elevation_to_wgs84
    header_updates,    \* calls of ENVIHeader.update_envi_header
    xml_source,        \* source attribute of the band added to the XML
    tile_result,       \* outcome of BaseElevation.get_gtopo30_tile_list
    dem_tile_result,   \* outcome of Base_DEM.get_gtopo30_tile_list (create_dem.py)
    elevation_raster,  \* size and pixels of the elevation image file
    geoid_raster,      \* size and pixels of the warped geoid image file
    call,              \* arguments of a function applied on its own
    ret                \* locals and outcome of that function

vars == <<pc, box, grid, catalog, attempts, caught, error, files, elevation_source,
          points_inside, gls_tile_list, bil_list, missing_count, gtopo30_todo,
          adjust_calls, header_updates, xml_source, tile_result, dem_tile_result,
          elevation_raster, geoid_raster, call, ret>>

----------------------------------------------------------------------------
(* Program constants of BaseElevation.__init__, in tenths of a degree.     *)

maxbox_padding == 2
north_latitude_limit == 900
south_latitude_limit == -900
glsdem_north_limit == 830
glsdem_south_limit == -530
ramp_south_limit == -600
gtopo30_padding == 10

(* GTOPO30 tile grid of get_gtopo30_tile_list. *)
NORTH_LON_LOCATIONS == {-1800, -1400, -1000, -600, -200, 200, 600, 1000, 1400}
SOUTH_LON_LOCATIONS == {-1800, -1200, -600, 0, 600, 1200}
LAT_LOCATIONS == {900, 400, -100, -600}
GTOPO30_TILE_SET_CUTOFF_LATITUDE == -600

----------------------------------------------------------------------------
(* Helpers standing for Python built-ins.                                  *)

SetMin(S) == CHOOSE m \in S : \A x \in S : m <= x
SetMax(S) == CHOOSE m \in S : \A x \in S : m >= x
Abs(n) == IF n < 0 THEN -n ELSE n
Min2(a, b) == IF a <= b THEN a ELSE b
Max2(a, b) == IF a >= b THEN a ELSE b

Digits == <<"0", "1", "2", "3", "4", "5", "6", "7", "8", "9">>
IsDigit(c) == \E i \in 1..10 : Digits[i] = c

RECURSIVE IntDigits(_)
IntDigits(n) ==
    IF n < 10 THEN <<Digits[n + 1]>>
    ELSE IntDigits(n \div 10) \o <<Digits[(n % 10) + 1]>>

RECURSIVE ZeroPad(_, _)
ZeroPad(s, w) == IF Len(s) >= w THEN s ELSE ZeroPad(<<"0">> \o s, w)

(* '{:0w}'.format(n) for a non-negative int n. *)
FormatInt(n, w) == ZeroPad(IntDigits(n), w)

(* '{:0w}'.format(x) for a non-negative whole-valued float x: Python       *)
(* renders the float with its fraction ('20.0') and only then pads.        *)
FormatFloat(n, w) == ZeroPad(IntDigits(n) \o <<".", "0">>, w)

----------------------------------------------------------------------------
(* Math.longitude_norm *)

RECURSIVE NormUp(_)
NormUp(r) == IF r < -1800 THEN NormUp(r + 3600) ELSE r

RECURSIVE NormDown(_)
NormDown(r) == IF r >= 1800 THEN NormDown(r - 3600) ELSE r

longitude_norm(longitude) == NormDown(NormUp(longitude))

----------------------------------------------------------------------------
(* get_gtopo30_tile_list.  min()/max() of an empty selection raises        *)
(* ValueError, which is the "raised" outcome.  The returned list is built  *)
(* by iterating Python sets, so its order is unspecified and it has no     *)
(* duplicates: it is modelled as a set of names (sequences of characters). *)

Gtopo30UlLon(b) == longitude_norm(b.west - gtopo30_padding)
Gtopo30LrLon(b) == longitude_norm(b.east + gtopo30_padding)
Gtopo30UlLat(b) == Min2(b.north + gtopo30_padding, north_latitude_limit)
Gtopo30LrLat(b) == Max2(b.south - gtopo30_padding, south_latitude_limit)

LatAbove(lat) == {l \in LAT_LOCATIONS : lat < l}

(* variant: a longitude on a band edge is put in the band it opens *)
LonBelowInclusive(lon, locations) == {l \in locations : lon >= l}

LonBelow(lon, locations) == {l \in locations : lon > l}

LonLocationsFor(lat) ==
    IF lat > GTOPO30_TILE_SET_CUTOFF_LATITUDE THEN NORTH_LON_LOCATIONS
    ELSE SOUTH_LON_LOCATIONS

Gtopo30LatRaises(b) ==
    \/ LatAbove(Gtopo30UlLat(b)) = {}
    \/ LatAbove(Gtopo30LrLat(b)) = {}

Gtopo30LatList(b) ==
    {SetMin(LatAbove(Gtopo30UlLat(b))), SetMin(LatAbove(Gtopo30LrLat(b)))}

Gtopo30LonRaises(b, lat) ==
    \/ LonBelow(Gtopo30UlLon(b), LonLocationsFor(lat)) = {}
    \/ LonBelow(Gtopo30LrLon(b), LonLocationsFor(lat)) = {}

Gtopo30LonList(b, lat) ==
    {SetMax(LonBelow(Gtopo30UlLon(b), LonLocationsFor(lat))),
     SetMax(LonBelow(Gtopo30LrLon(b), LonLocationsFor(lat)))}

Gtopo30Raises(b) ==
    \/ Gtopo30LatRaises(b)
    \/ \E lat \in Gtopo30LatList(b) : Gtopo30LonRaises(b, lat)

(* The (latitude band, longitude band) cells the function selects. *)
Gtopo30Cells(b) ==
    {<<lat, lon>> \in LAT_LOCATIONS \X (NORTH_LON_LOCATIONS \cup SOUTH_LON_LOCATIONS) :
        /\ lat \in Gtopo30LatList(b)
        /\ lon \in Gtopo30LonList(b, lat)}

Gtopo30EW(lon) == IF lon <= 0 THEN "w" ELSE "e"
Gtopo30NS(lat) == IF lat < 0 THEN "s" ELSE "n"

(* build_elevation_band.py formats the numpy floats abs(lon), abs(lat). *)
Gtopo30TileName(lat, lon) ==
    <<Gtopo30EW(lon)>> \o FormatFloat(Abs(lon) \div 10, 3)
        \o <<Gtopo30NS(lat)>> \o FormatFloat(Abs(lat) \div 10, 2)

(* create_dem.py formats int(lon), int(lat). *)
DemGtopo30TileName(lat, lon) ==
    <<Gtopo30EW(lon)>> \o FormatInt(Abs(lon) \div 10, 3)
        \o <<Gtopo30NS(lat)>> \o FormatInt(Abs(lat) \div 10, 2)

get_gtopo30_tile_list(b) ==
    IF Gtopo30Raises(b) THEN [raised |-> TRUE, tiles |-> {}]
    ELSE [raised |-> FALSE,
          tiles |-> {Gtopo30TileName(c[1], c[2]) : c \in Gtopo30Cells(b)}]

dem_get_gtopo30_tile_list(b) ==
    IF Gtopo30Raises(b) THEN [raised |-> TRUE, tiles |-> {}]
    ELSE [raised |-> FALSE,
          tiles |-> {DemGtopo30TileName(c[1], c[2]) : c \in Gtopo30Cells(b)}]

NoTiles == [raised |-> FALSE, tiles |-> {}]

----------------------------------------------------------------------------
(* generate_using_gls: tile enumeration and catalog lookup.                *)

(* variant: int() alone, which truncates towards zero *)
FloorDegTruncating(x) == IF x < 0 THEN -((-x) \div 10) ELSE x \div 10

(* math.floor of an angle in tenths of a degree, in whole degrees. *)
FloorDeg(x) == x \div 10

(* variant: the longitude range ends at the ceiling of the east side *)
GlsTileListCeilEast(b) ==
    {<<lat, lon>> \in (FloorDeg(b.south)..FloorDeg(b.north))
                      \X (FloorDeg(b.west)..(-FloorDeg(-b.east))) : TRUE}

(* the two xrange loops over end_latitude..start_latitude and              *)
(* start_longitude..end_longitude                                          *)
GlsTileList(b) ==
    {<<lat, lon>> \in (FloorDeg(b.south)..FloorDeg(b.north))
                      \X (FloorDeg(b.west)..FloorDeg(b.east)) : TRUE}

GlsTileName(lat, lon) ==
    <<(IF lat < 0 THEN "s" ELSE "n")>> \o FormatInt(Abs(lat), 2)
        \o <<(IF lon < 0 THEN "w" ELSE "e")>> \o FormatInt(Abs(lon), 3)

(* variant: only the .bil file is looked up *)
GlsTilePresentByBil(cat, t) == t \in cat.bil

(* os.path.isfile(bil_path) and os.path.isfile(hdr_path) *)
GlsTilePresent(cat, t) == t \in cat.bil /\ t \in cat.hdr

GlsPresentTiles(cat, tiles) == {t \in tiles : GlsTilePresent(cat, t)}

(* variant: over water only when more tiles are missing than were listed *)
GlsOverWaterStrict(missing, count) == missing > count

(* if missing_count >= tile_count *)
GlsOverWater(missing, count) == missing >= count

----------------------------------------------------------------------------
(* Artifacts of the working directory: <<kind, tile name>>. *)

NoTile == <<>>
RampLinks == {<<"ramp_header_link", NoTile>>, <<"ramp_image_link", NoTile>>}
GeoidLinks == {<<"geoid_header_link", NoTile>>, <<"geoid_image_link", NoTile>>}
WarpedGeoid == {<<"espa_geoid_header", NoTile>>, <<"espa_geoid_image", NoTile>>}
MosaicFiles == {<<"mosaic_header", NoTile>>, <<"mosaic_image", NoTile>>}
ElevationFiles == {<<"elevation_header", NoTile>>, <<"elevation_image", NoTile>>}
GlsLinks(names) ==
    {<<k, n>> : k \in {"gls_bil_link", "gls_hdr_link", "gls_prj_link"}, n \in names}
Gtopo30Archive(tile) == {<<"gtopo30_archive", tile>>}
Gtopo30Extracted(tile) == {<<"gtopo30_dem", tile>>, <<"gtopo30_hdr", tile>>}

(* glob.glob(self.gtopo30_files_regexp): the extracted files, not the archive *)
Gtopo30Glob(fs) == {f \in fs : f[1] \in {"gtopo30_dem", "gtopo30_hdr"}}

(* glob.glob(self.gtopo30_dems_regexp): the extracted DEM rasters *)
Gtopo30DemsGlob(fs) == {f \in fs : f[1] = "gtopo30_dem"}

TemporaryFiles(fs) == fs \ ElevationFiles

----------------------------------------------------------------------------
(* Rasters: XSize, YSize and the pixels in row-major order.  Both the      *)
(* elevation and the geoid are warped with output type Int16.              *)

NoRaster == [xsize |-> 0, ysize |-> 0, data |-> <<>>]

Raster(x, y, pixels) == [xsize |-> x, ysize |-> y, data |-> pixels]

(* numpy int16 arithmetic: the result is reduced to 16 bits, two's complement *)
Int16(n) == ((n + 32768) % 65536) - 32768

(* variant: only the raster widths are compared *)
SizesDifferInWidth(g, e) == g.xsize # e.xsize

(* geoid_band.XSize != elevation_band.XSize or                             *)
(* geoid_band.YSize != elevation_band.YSize                                *)
SizesDiffer(g, e) == g.xsize # e.xsize \/ g.ysize # e.ysize

(* new_data = (elevation_data + geoid_data).astype(np.int16) *)
AddRasters(e, g) ==
    [i \in 1..Len(e.data) |-> Int16(e.data[i] + g.data[i])]

(* default state of the function harness variables *)
NoCall == <<>>

(* An optional value is <<>> (None) or <<value>>. *)
None == <<>>

(* The target grid fields as __init__ leaves them. *)
NoGrid ==
    [pixel_resolution_x |-> None, pixel_resolution_y |-> None,
     target_srs |-> None, extents |-> None]

----------------------------------------------------------------------------
(* Source selection of generate(). *)

(* variant: the padding widens the latitudes only *)
PadBoxLatitudes(b) ==
    [north |-> b.north + maxbox_padding, south |-> b.south - maxbox_padding,
     east |-> b.east, west |-> b.west]

(* the four "+=" / "-=" of the max box padding *)
PadBox(b) ==
    [north |-> b.north + maxbox_padding, south |-> b.south - maxbox_padding,
     east |-> b.east + maxbox_padding, west |-> b.west - maxbox_padding]

(* variant: a box whose north side is on the RAMP limit is not polar *)
UsesRampStrict(b) == b.north < ramp_south_limit

(* if self.bounding_north_latitude <= self.ramp_south_limit *)
UsesRamp(b) == b.north <= ramp_south_limit

(* variant: the gap between RAMP and GLS is decided by the north side only *)
UsesGtopo30OnlyByNorth(b) ==
    \/ /\ b.north <= glsdem_south_limit
       /\ b.north > ramp_south_limit
    \/ /\ b.north >= glsdem_north_limit
       /\ b.south >= glsdem_north_limit

(* the elif condition *)
UsesGtopo30Only(b) ==
    \/ /\ b.north <= glsdem_south_limit
       /\ b.north > ramp_south_limit
       /\ b.south <= glsdem_south_limit
       /\ b.south > ramp_south_limit
    \/ /\ b.north >= glsdem_north_limit
       /\ b.south >= glsdem_north_limit

(* variant: three points inside are not enough *)
RampRejectsThree(n) == n <= 3

(* if points_in_polygon < 3: raise RAMPCoverageError *)
RampRejects(n) == n < 3

----------------------------------------------------------------------------
(* Math.point_in_polygon and _verify_ramp_overlap.  A vertex and a point   *)
(* are <<x, y>>; coordinates are exact, so the comparison of y_c with the  *)
(* interpolated edge height is made after multiplying by the (non-zero)    *)
(* x extent of the edge.                                                   *)

(* variant: the first end of an edge counts as right of x_c when on it *)
EdgeCrossesLeftClosed(a, b, x_c, y_c) ==
    /\ (a[1] >= x_c) # (b[1] > x_c)
    /\ IF b[1] > a[1]
       THEN (y_c - a[2]) * (b[1] - a[1]) < (b[2] - a[2]) * (x_c - a[1])
       ELSE (y_c - a[2]) * (b[1] - a[1]) > (b[2] - a[2]) * (x_c - a[1])

(* ((x_v[index] > x_c) != (x_v[index + 1] > x_c)) and                     *)
(* y_c < (y_v[index + 1] - y_v[index]) * (x_c - x_v[index])               *)
(*       / (x_v[index + 1] - x_v[index]) + y_v[index]                     *)
EdgeCrosses(a, b, x_c, y_c) ==
    /\ (a[1] > x_c) # (b[1] > x_c)
    /\ IF b[1] > a[1]
       THEN (y_c - a[2]) * (b[1] - a[1]) < (b[2] - a[2]) * (x_c - a[1])
       ELSE (y_c - a[2]) * (b[1] - a[1]) > (b[2] - a[2]) * (x_c - a[1])

(* variant: the segment that closes the ring is not tested *)
SegmentsButLast(vertices) == 1..(Len(vertices) - 2)

(* for index in xrange(count - 1): the segment from vertex index to the next *)
Segments(vertices) == 1..(Len(vertices) - 1)

(* inside_polygon is toggled once per crossed segment *)
InsidePolygon(vertices, x_c, y_c) ==
    Cardinality({i \in Segments(vertices) :
                    EdgeCrosses(vertices[i], vertices[i + 1], x_c, y_c)}) % 2 = 1

(* the two checks that raise MathError *)
TooFewVertices(vertices) == Len(vertices) < 4

NotClosed(vertices) ==
    /\ vertices[1][1] # vertices[Len(vertices)][1]
    /\ vertices[1][2] # vertices[Len(vertices)][2]

point_in_polygon(vertices, x_c, y_c) ==
    IF TooFewVertices(vertices) \/ NotClosed(vertices)
    THEN [raised |-> "MathError", inside |-> FALSE]
    ELSE [raised |-> "none", inside |-> InsidePolygon(vertices, x_c, y_c)]

(* Geo.convert_imageXY_to_mapXY; transform is the GDAL geotransform *)
convert_imageXY_to_mapXY(image_x, image_y, transform) ==
    <<transform[1] + image_x * transform[2] + image_y * transform[3],
      transform[4] + image_x * transform[5] + image_y * transform[6]>>

(* the closed footprint ring UL, UR, LR, LL, UL of the RAMP raster *)
RampVertices(ramp_lines, ramp_samples, ramp_transform) ==
    LET ul == convert_imageXY_to_mapXY(0, 0, ramp_transform)
        ur == convert_imageXY_to_mapXY(ramp_samples - 1, 0, ramp_transform)
        lr == convert_imageXY_to_mapXY(ramp_samples - 1, ramp_lines - 1,
                                       ramp_transform)
        ll == convert_imageXY_to_mapXY(0, ramp_lines - 1, ramp_transform)
    IN <<ul, ur, lr, ll, ul>>

(* points is <<UL, UR, LR, LL, center>> of the max box in map coordinates *)
verify_ramp_overlap(ramp_lines, ramp_samples, ramp_transform, points) ==
    LET vertices == RampVertices(ramp_lines, ramp_samples, ramp_transform)
        inside == {i \in 1..5 :
                     point_in_polygon(vertices, points[i][1], points[i][2]).inside}
    IN [tested |-> 5,
        points_in_polygon |-> Cardinality(inside),
        raised |-> IF RampRejects(Cardinality(inside))
                   THEN "RAMPCoverageError" ELSE "none"]

----------------------------------------------------------------------------
(* Bounds of the model: the scenes and catalogs that are explored.         *)

(* Every critical coordinate is explored together with its neighbours up   *)
(* to EdgeHalo tenths of a degree away.                                    *)
EdgeHalo == 1

Near(S) == {c + d : c \in S, d \in -EdgeHalo..EdgeHalo}

(* north - south of the explored scenes *)
BoxSpans == {0, 40}

SelectionThresholds == {ramp_south_limit, glsdem_south_limit, glsdem_north_limit}

(* south latitudes that put the padded north or the padded south on a      *)
(* selection threshold, a deep polar scene, two mid-latitude scenes (one   *)
(* GLS tile row, two GLS tile rows) and a scene next to the north pole     *)
SceneSouths ==
    Near({t - maxbox_padding - s : t \in SelectionThresholds, s \in BoxSpans}
         \cup {t + maxbox_padding : t \in SelectionThresholds}
         \cup {-700, 441, 443, 888})

(* (west, east): a mid-longitude scene, a scene on the prime meridian, two *)
(* scenes next to the antimeridian and one that wraps around it            *)
SceneLongitudes ==
    {<<-1187, -1187>>, <<-10, 10>>, <<-1788, -1780>>, <<1780, 1788>>, <<1795, -1795>>}

SceneBoxes ==
    {[north |-> s + sp, south |-> s, east |-> l[2], west |-> l[1]] :
        s \in {x \in SceneSouths : x >= south_latitude_limit},
        sp \in BoxSpans, l \in SceneLongitudes}

(* the GLS tiles the explored catalogs may hold *)
CatalogTiles == {<<44, -119>>}

Catalogs == [bil : SUBSET CatalogTiles, hdr : SUBSET CatalogTiles]

(* rasters gdalwarp may write for the elevation: ordinary heights and the  *)
(* two ends of the Int16 range                                             *)
WarpedElevations ==
    {Raster(1, 1, <<100>>), Raster(1, 1, <<32767>>), Raster(2, 1, <<-32768, 8848>>)}

(* rasters gdalwarp may write for the geoid: the size of the elevation, or *)
(* another width, another height, or both                                  *)
WarpedGeoids ==
    {Raster(1, 1, <<-30>>), Raster(1, 1, <<85>>), Raster(2, 1, <<-30, 85>>),
     Raster(1, 2, <<-30, 85>>)}

(* target grids read by parse_metadata: a UTM scene and a polar             *)
(* stereographic scene, extents as (min_x, min_y, max_x, max_y)             *)
SceneGrids ==
    {[pixel_resolution_x |-> <<30>>, pixel_resolution_y |-> <<30>>,
      target_srs |-> <<"+proj=utm +zone=11">>, extents |-> <<0, 0, 60, 60>>],
     [pixel_resolution_x |-> <<15>>, pixel_resolution_y |-> <<15>>,
      target_srs |-> <<"+proj=stere +lat_0=-90">>,
      extents |-> <<-90, -90, 90, 90>>]}

----------------------------------------------------------------------------
(* The run of generate() under main().                                     *)

Init ==
    /\ pc = "generate"
    /\ box \in {b \in SceneBoxes : b.north <= north_latitude_limit}
    /\ grid \in SceneGrids
    /\ catalog \in Catalogs
    /\ attempts = <<>>
    /\ caught = <<>>
    /\ error = "none"
    /\ files = {}
    /\ elevation_source = "unset"
    /\ points_inside = 0
    /\ gls_tile_list = {}
    /\ bil_list = {}
    /\ missing_count = 0
    /\ gtopo30_todo = {}
    /\ adjust_calls = 0
    /\ header_updates = 0
    /\ xml_source = "unset"
    /\ tile_result = NoTiles
    /\ dem_tile_result = NoTiles
    /\ elevation_raster = NoRaster
    /\ geoid_raster = NoRaster
    /\ call = NoCall
    /\ ret = NoCall

(* An exception leaves generate(); main() logs it and exits with 1. *)
Raise(kind) ==
    /\ pc' = "failed"
    /\ error' = kind

(* generate(): pad the max box, default the source label *)
PadMaxBox ==
    /\ pc = "generate"
    /\ box' = PadBox(box)
    /\ elevation_source' = "gtopo30"
    /\ pc' = "select"
    /\ UNCHANGED <<grid, catalog, attempts, caught, error, files, points_inside,
                   gls_tile_list, bil_list, missing_count, gtopo30_todo,
                   adjust_calls, header_updates, xml_source, tile_result,
                   dem_tile_result,
                   elevation_raster, geoid_raster, call, ret>>

AttemptRamp ==
    /\ pc = "select"
    /\ UsesRamp(box)
    /\ attempts' = Append(attempts, "ramp")
    /\ pc' = "ramp_link"
    /\ UNCHANGED <<box, grid, catalog, caught, error, files, elevation_source,
                   points_inside, gls_tile_list, bil_list, missing_count,
                   gtopo30_todo, adjust_calls, header_updates, xml_source,
                   tile_result, dem_tile_result,
                   elevation_raster, geoid_raster, call, ret>>

UseGtopo30 ==
    /\ pc = "select"
    /\ ~UsesRamp(box)
    /\ UsesGtopo30Only(box)
    /\ attempts' = Append(attempts, "gtopo30")
    /\ pc' = "gtopo30_tiles"
    /\ UNCHANGED <<box, grid, catalog, caught, error, files, elevation_source,
                   points_inside, gls_tile_list, bil_list, missing_count,
                   gtopo30_todo, adjust_calls, header_updates, xml_source,
                   tile_result, dem_tile_result,
                   elevation_raster, geoid_raster, call, ret>>

(* variant: the label is set to 'gls' before the regional attempt is made *)
AttemptGlsLabelFirst ==
    /\ pc = "select"
    /\ ~UsesRamp(box)
    /\ ~UsesGtopo30Only(box)
    /\ attempts' = Append(attempts, "gls")
    /\ elevation_source' = "gls"
    /\ pc' = "gls_tiles"
    /\ UNCHANGED <<box, grid, catalog, caught, error, files,
                   points_inside, gls_tile_list, bil_list, missing_count,
                   gtopo30_todo, adjust_calls, header_updates, xml_source,
                   tile_result, dem_tile_result,
                   elevation_raster, geoid_raster, call, ret>>

AttemptGls ==
    /\ pc = "select"
    /\ ~UsesRamp(box)
    /\ ~UsesGtopo30Only(box)
    /\ attempts' = Append(attempts, "gls")
    /\ pc' = "gls_tiles"
    /\ UNCHANGED <<box, grid, catalog, caught, error, files, elevation_source,
                   points_inside, gls_tile_list, bil_list, missing_count,
                   gtopo30_todo, adjust_calls, header_updates, xml_source,
                   tile_result, dem_tile_result,
                   elevation_raster, geoid_raster, call, ret>>

(* generate_using_ramp: link the RAMP data, open it with GDAL *)
RampLink ==
    /\ pc = "ramp_link"
    /\ files' = files \cup RampLinks
    /\ \/ pc' = "ramp_verify" /\ error' = error
       \/ Raise("GdalError")
    /\ UNCHANGED <<box, grid, catalog, attempts, caught, elevation_source,
                   points_inside, gls_tile_list, bil_list, missing_count,
                   gtopo30_todo, adjust_calls, header_updates, xml_source,
                   tile_result, dem_tile_result,
                   elevation_raster, geoid_raster, call, ret>>

(* _verify_ramp_overlap; RAMPCoverageError is caught by generate() *)
RampVerify ==
    /\ pc = "ramp_verify"
    /\ \E n \in 0..5 :
        /\ points_inside' = n
        /\ IF RampRejects(n)
           THEN /\ caught' = Append(caught, "RAMPCoverageError")
                /\ attempts' = Append(attempts, "gtopo30")
                /\ pc' = "gtopo30_tiles"
           ELSE /\ pc' = "ramp_warp"
                /\ UNCHANGED <<caught, attempts>>
    /\ UNCHANGED <<box, grid, catalog, error, files, elevation_source, gls_tile_list,
                   bil_list, missing_count, gtopo30_todo, adjust_calls,
                   header_updates, xml_source, tile_result, dem_tile_result,
                   elevation_raster, geoid_raster, call, ret>>

(* warp_to_source_data(self.ramp_image_name) *)
RampWarp ==
    /\ pc = "ramp_warp"
    /\ \/ /\ files' = files \cup ElevationFiles
          /\ elevation_raster' \in WarpedElevations
          /\ pc' = "ramp_unlink"
          /\ error' = error
       \/ /\ Raise("ExternalToolFailure")
          /\ UNCHANGED <<files, elevation_raster>>
    /\ UNCHANGED <<box, grid, catalog, attempts, caught, elevation_source,
                   points_inside, gls_tile_list, bil_list, missing_count,
                   gtopo30_todo, adjust_calls, header_updates, xml_source,
                   tile_result, dem_tile_result, geoid_raster, call, ret>>

(* variant: the datum adjustment is applied to the RAMP result as well *)
RampUnlinkThenAdjust ==
    /\ pc = "ramp_unlink"
    /\ files' = files \ RampLinks
    /\ elevation_source' = "ramp"
    /\ pc' = "adjust_link"
    /\ UNCHANGED <<box, grid, catalog, attempts, caught, error, points_inside,
                   gls_tile_list, bil_list, missing_count, gtopo30_todo,
                   adjust_calls, header_updates, xml_source, tile_result,
                   dem_tile_result,
                   elevation_raster, geoid_raster, call, ret>>

(* unlink the RAMP links; back in generate(): elevation_source = 'ramp' *)
RampUnlink ==
    /\ pc = "ramp_unlink"
    /\ files' = files \ RampLinks
    /\ elevation_source' = "ramp"
    /\ pc' = "aux_cleanup"
    /\ UNCHANGED <<box, grid, catalog, attempts, caught, error, points_inside,
                   gls_tile_list, bil_list, missing_count, gtopo30_todo,
                   adjust_calls, header_updates, xml_source, tile_result,
                   dem_tile_result,
                   elevation_raster, geoid_raster, call, ret>>

(* get_gtopo30_dems: determine the GTOPO30 tiles *)
Gtopo30Tiles ==
    /\ pc = "gtopo30_tiles"
    /\ tile_result' = get_gtopo30_tile_list(box)
    /\ IF tile_result'.raised
       THEN /\ Raise("ValueError")
            /\ gtopo30_todo' = gtopo30_todo
       ELSE /\ gtopo30_todo' = tile_result'.tiles
            /\ pc' = "gtopo30_fetch"
            /\ error' = error
    /\ UNCHANGED <<box, grid, catalog, attempts, caught, files, elevation_source,
                   points_inside, gls_tile_list, bil_list, missing_count,
                   adjust_calls, header_updates, xml_source, dem_tile_result,
                   elevation_raster, geoid_raster, call, ret>>

(* get_gtopo30_dems: cp, tar -xvf and unlink of one tile archive *)
Gtopo30Fetch ==
    /\ pc = "gtopo30_fetch"
    /\ \E tile \in gtopo30_todo :
        \/ /\ Raise("ExternalToolFailure")                 \* cp fails
           /\ UNCHANGED <<files, gtopo30_todo>>
        \/ /\ Raise("ExternalToolFailure")                 \* tar fails
           /\ files' = files \cup Gtopo30Archive(tile)
           /\ gtopo30_todo' = gtopo30_todo
        \/ /\ files' = files \cup Gtopo30Extracted(tile)
           /\ gtopo30_todo' = gtopo30_todo \ {tile}
           /\ pc' = IF gtopo30_todo' = {} THEN "gtopo30_mosaic" ELSE pc
           /\ error' = error
    /\ UNCHANGED <<box, grid, catalog, attempts, caught, elevation_source,
                   points_inside, gls_tile_list, bil_list, missing_count,
                   adjust_calls, header_updates, xml_source, tile_result,
                   dem_tile_result,
                   elevation_raster, geoid_raster, call, ret>>

(* variant: a failed GTOPO30 mosaic starts the GTOPO30 attempt again *)
Gtopo30MosaicRetry ==
    /\ pc = "gtopo30_mosaic"
    /\ \/ /\ files' = files \cup MosaicFiles
          /\ pc' = "gtopo30_warp"
          /\ UNCHANGED <<error, attempts>>
       \/ /\ Len(attempts) < 3
          /\ attempts' = Append(attempts, "gtopo30")
          /\ pc' = "gtopo30_tiles"
          /\ UNCHANGED <<error, files>>
       \/ /\ Len(attempts) >= 3
          /\ Raise("ExternalToolFailure")
          /\ UNCHANGED <<files, attempts>>
    /\ UNCHANGED <<box, grid, catalog, caught, elevation_source,
                   points_inside, gls_tile_list, bil_list, missing_count,
                   gtopo30_todo, adjust_calls, header_updates, xml_source,
                   tile_result, dem_tile_result,
                   elevation_raster, geoid_raster, call, ret>>

(* generate_using_gtopo30: mosaic_tiles(tile_elevation_list) *)
Gtopo30Mosaic ==
    /\ pc = "gtopo30_mosaic"
    /\ \/ /\ files' = files \cup MosaicFiles
          /\ pc' = "gtopo30_warp"
          /\ error' = error
       \/ /\ Raise("ExternalToolFailure")
          /\ files' = files
    /\ UNCHANGED <<box, grid, catalog, attempts, caught, elevation_source,
                   points_inside, gls_tile_list, bil_list, missing_count,
                   gtopo30_todo, adjust_calls, header_updates, xml_source,
                   tile_result, dem_tile_result,
                   elevation_raster, geoid_raster, call, ret>>

(* generate_using_gtopo30: warp_to_source_data(self.mosaic_image_name) *)
Gtopo30Warp ==
    /\ pc = "gtopo30_warp"
    /\ \/ /\ files' = files \cup ElevationFiles
          /\ elevation_raster' \in WarpedElevations
          /\ pc' = "gtopo30_cleanup"
          /\ error' = error
       \/ /\ Raise("ExternalToolFailure")
          /\ UNCHANGED <<files, elevation_raster>>
    /\ UNCHANGED <<box, grid, catalog, attempts, caught, elevation_source,
                   points_inside, gls_tile_list, bil_list, missing_count,
                   gtopo30_todo, adjust_calls, header_updates, xml_source,
                   tile_result, dem_tile_result, geoid_raster, call, ret>>

(* generate_using_gtopo30: mosaic_cleanup() and removal of the tile files; *)
(* every branch of generate() then calls adjust_elevation_to_wgs84         *)
Gtopo30Cleanup ==
    /\ pc = "gtopo30_cleanup"
    /\ files' = (files \ MosaicFiles) \ Gtopo30Glob(files)
    /\ pc' = "adjust_link"
    /\ UNCHANGED <<box, grid, catalog, attempts, caught, error, elevation_source,
                   points_inside, gls_tile_list, bil_list, missing_count,
                   gtopo30_todo, adjust_calls, header_updates, xml_source,
                   tile_result, dem_tile_result,
                   elevation_raster, geoid_raster, call, ret>>

(* generate_using_gls: enumerate the tiles of the box *)
GlsTiles ==
    /\ pc = "gls_tiles"
    /\ gls_tile_list' = GlsTileList(box)
    /\ IF Cardinality(gls_tile_list') = 0
       THEN Raise("RuntimeError")
       ELSE pc' = "gls_link" /\ error' = error
    /\ UNCHANGED <<box, grid, catalog, attempts, caught, files, elevation_source,
                   points_inside, bil_list, missing_count, gtopo30_todo,
                   adjust_calls, header_updates, xml_source, tile_result,
                   dem_tile_result,
                   elevation_raster, geoid_raster, call, ret>>

(* generate_using_gls: link the tiles found in the catalog, count the      *)
(* missing ones; GLSOverWaterError is caught by generate()                 *)
GlsLink ==
    /\ pc = "gls_link"
    /\ LET present == GlsPresentTiles(catalog, gls_tile_list)
           names == {GlsTileName(t[1], t[2]) : t \in present}
           missing == Cardinality(gls_tile_list) - Cardinality(present)
       IN /\ bil_list' = names
          /\ missing_count' = missing
          /\ IF GlsOverWater(missing, Cardinality(gls_tile_list))
             THEN /\ files' = (files \cup GlsLinks(names)) \ GlsLinks(names)
                  /\ caught' = Append(caught, "GLSOverWaterError")
                  /\ attempts' = Append(attempts, "gtopo30")
                  /\ pc' = "gtopo30_tiles"
             ELSE /\ files' = files \cup GlsLinks(names)
                  /\ pc' = "gls_mosaic"
                  /\ UNCHANGED <<caught, attempts>>
    /\ UNCHANGED <<box, grid, catalog, error, elevation_source, points_inside,
                   gls_tile_list, gtopo30_todo, adjust_calls, header_updates,
                   xml_source, tile_result, dem_tile_result,
                   elevation_raster, geoid_raster, call, ret>>

(* variant: generate() catches every exception of the GLS attempt *)
GlsMosaicCatchAll ==
    /\ pc = "gls_mosaic"
    /\ \/ /\ files' = files \cup MosaicFiles
          /\ pc' = "gls_warp"
          /\ UNCHANGED <<attempts, caught>>
       \/ /\ files' = files
          /\ caught' = Append(caught, "Exception")
          /\ attempts' = Append(attempts, "gtopo30")
          /\ pc' = "gtopo30_tiles"
    /\ UNCHANGED <<box, grid, catalog, error, elevation_source, points_inside,
                   gls_tile_list, bil_list, missing_count, gtopo30_todo,
                   adjust_calls, header_updates, xml_source, tile_result,
                   dem_tile_result,
                   elevation_raster, geoid_raster, call, ret>>

(* generate_using_gls: mosaic_tiles(bil_list) *)
GlsMosaic ==
    /\ pc = "gls_mosaic"
    /\ \/ /\ files' = files \cup MosaicFiles
          /\ pc' = "gls_warp"
          /\ error' = error
       \/ /\ Raise("ExternalToolFailure")
          /\ files' = files
    /\ UNCHANGED <<box, grid, catalog, attempts, caught, elevation_source,
                   points_inside, gls_tile_list, bil_list, missing_count,
                   gtopo30_todo, adjust_calls, header_updates, xml_source,
                   tile_result, dem_tile_result,
                   elevation_raster, geoid_raster, call, ret>>

(* generate_using_gls: warp_to_source_data(self.mosaic_image_name) *)
GlsWarp ==
    /\ pc = "gls_warp"
    /\ \/ /\ files' = files \cup ElevationFiles
          /\ elevation_raster' \in WarpedElevations
          /\ pc' = "gls_cleanup"
          /\ error' = error
       \/ /\ Raise("ExternalToolFailure")
          /\ UNCHANGED <<files, elevation_raster>>
    /\ UNCHANGED <<box, grid, catalog, attempts, caught, elevation_source,
                   points_inside, gls_tile_list, bil_list, missing_count,
                   gtopo30_todo, adjust_calls, header_updates, xml_source,
                   tile_result, dem_tile_result, geoid_raster, call, ret>>

(* generate_using_gls: mosaic_cleanup(), unlink the tile links; back in    *)
(* generate(): elevation_source = 'gls', then adjust_elevation_to_wgs84    *)
GlsCleanup ==
    /\ pc = "gls_cleanup"
    /\ files' = (files \ MosaicFiles) \ GlsLinks(bil_list)
    /\ elevation_source' = "gls"
    /\ pc' = "adjust_link"
    /\ UNCHANGED <<box, grid, catalog, attempts, caught, error, points_inside,
                   gls_tile_list, bil_list, missing_count, gtopo30_todo,
                   adjust_calls, header_updates, xml_source, tile_result,
                   dem_tile_result,
                   elevation_raster, geoid_raster, call, ret>>

(* adjust_elevation_to_wgs84: link the geoid *)
AdjustLink ==
    /\ pc = "adjust_link"
    /\ adjust_calls' = adjust_calls + 1
    /\ files' = files \cup GeoidLinks
    /\ pc' = "adjust_warp"
    /\ UNCHANGED <<box, grid, catalog, attempts, caught, error, elevation_source,
                   points_inside, gls_tile_list, bil_list, missing_count,
                   gtopo30_todo, header_updates, xml_source, tile_result,
                   dem_tile_result,
                   elevation_raster, geoid_raster, call, ret>>

(* adjust_elevation_to_wgs84: warp the geoid to the product projection *)
AdjustWarp ==
    /\ pc = "adjust_warp"
    /\ \/ /\ files' = files \cup WarpedGeoid
          /\ geoid_raster' \in WarpedGeoids
          /\ pc' = "adjust_unlink"
          /\ error' = error
       \/ /\ Raise("ExternalToolFailure")
          /\ UNCHANGED <<files, geoid_raster>>
    /\ UNCHANGED <<box, grid, catalog, attempts, caught, elevation_source,
                   points_inside, gls_tile_list, bil_list, missing_count,
                   gtopo30_todo, adjust_calls, header_updates, xml_source,
                   tile_result, dem_tile_result, elevation_raster, call, ret>>

(* adjust_elevation_to_wgs84: remove the geoid links *)
AdjustUnlink ==
    /\ pc = "adjust_unlink"
    /\ files' = files \ GeoidLinks
    /\ pc' = "adjust_combine"
    /\ UNCHANGED <<box, grid, catalog, attempts, caught, error, elevation_source,
                   points_inside, gls_tile_list, bil_list, missing_count,
                   gtopo30_todo, adjust_calls, header_updates, xml_source,
                   tile_result, dem_tile_result,
                   elevation_raster, geoid_raster, call, ret>>

(* adjust_elevation_to_wgs84: size check, add the rasters, write back *)
AdjustCombine ==
    /\ pc = "adjust_combine"
    /\ IF SizesDiffer(geoid_raster, elevation_raster)
       THEN /\ Raise("SizeMismatch")
            /\ elevation_raster' = elevation_raster
       ELSE /\ elevation_raster' =
                   [elevation_raster EXCEPT
                       !.data = AddRasters(elevation_raster, geoid_raster)]
            /\ pc' = "adjust_cleanup"
            /\ error' = error
    /\ UNCHANGED <<box, grid, catalog, attempts, caught, files, elevation_source,
                   points_inside, gls_tile_list, bil_list, missing_count,
                   gtopo30_todo, adjust_calls, header_updates, xml_source,
                   tile_result, dem_tile_result, geoid_raster, call, ret>>

(* adjust_elevation_to_wgs84: remove the warped geoid *)
AdjustCleanup ==
    /\ pc = "adjust_cleanup"
    /\ files' = files \ WarpedGeoid
    /\ geoid_raster' = NoRaster
    /\ pc' = "aux_cleanup"
    /\ UNCHANGED <<box, grid, catalog, attempts, caught, error, elevation_source,
                   points_inside, gls_tile_list, bil_list, missing_count,
                   gtopo30_todo, adjust_calls, header_updates, xml_source,
                   tile_result, dem_tile_result, elevation_raster, call, ret>>

(* variant: the cleanup goes straight on to the XML, past the header update *)
AuxCleanupSkipHeader ==
    /\ pc = "aux_cleanup"
    /\ pc' = "add_band"
    /\ UNCHANGED <<box, grid, catalog, attempts, caught, error, files,
                   elevation_source, points_inside, gls_tile_list, bil_list,
                   missing_count, gtopo30_todo, adjust_calls, header_updates,
                   xml_source, tile_result, dem_tile_result,
                   elevation_raster, geoid_raster, call, ret>>

(* generate(): remove the GDAL auxiliary files *)
AuxCleanup ==
    /\ pc = "aux_cleanup"
    /\ pc' = "envi_header"
    /\ UNCHANGED <<box, grid, catalog, attempts, caught, error, files,
                   elevation_source, points_inside, gls_tile_list, bil_list,
                   missing_count, gtopo30_todo, adjust_calls, header_updates,
                   xml_source, tile_result, dem_tile_result,
                   elevation_raster, geoid_raster, call, ret>>

(* generate(): update the ENVI header *)
UpdateEnviHeader ==
    /\ pc = "envi_header"
    /\ header_updates' = header_updates + 1
    /\ pc' = "add_band"
    /\ UNCHANGED <<box, grid, catalog, attempts, caught, error, files,
                   elevation_source, points_inside, gls_tile_list, bil_list,
                   missing_count, gtopo30_todo, adjust_calls, xml_source,
                   tile_result, dem_tile_result,
                   elevation_raster, geoid_raster, call, ret>>

(* generate(): add_elevation_band_to_xml(elevation_source); main() exits 0 *)
AddElevationBand ==
    /\ pc = "add_band"
    /\ xml_source' = elevation_source
    /\ pc' = "done"
    /\ UNCHANGED <<box, grid, catalog, attempts, caught, error, files,
                   elevation_source, points_inside, gls_tile_list, bil_list,
                   missing_count, gtopo30_todo, adjust_calls, header_updates,
                   tile_result, dem_tile_result,
                   elevation_raster, geoid_raster, call, ret>>

Next ==
    \/ PadMaxBox
    \/ AttemptRamp
    \/ UseGtopo30
    \/ AttemptGls
    \/ RampLink
    \/ RampVerify
    \/ RampWarp
    \/ RampUnlink
    \/ Gtopo30Tiles
    \/ Gtopo30Fetch
    \/ Gtopo30Mosaic
    \/ Gtopo30Warp
    \/ Gtopo30Cleanup
    \/ GlsTiles
    \/ GlsLink
    \/ GlsMosaic
    \/ GlsWarp
    \/ GlsCleanup
    \/ AdjustLink
    \/ AdjustWarp
    \/ AdjustUnlink
    \/ AdjustCombine
    \/ AdjustCleanup
    \/ AuxCleanup
    \/ UpdateEnviHeader
    \/ AddElevationBand

Spec == Init /\ [][Next]_vars

Terminated == pc \in {"done", "failed"}

----------------------------------------------------------------------------
(* get_gtopo30_tile_list applied to bounding boxes as a function of the    *)
(* four bounding fields, in both scripts.                                  *)

TileLatEdges == LAT_LOCATIONS \cup {south_latitude_limit, 0}
TileLonEdges == {-1800, -200, 0, 200, 1800}
TileSpans == {0, 20}

(* coordinates that put a box side, or a box side padded by the GTOPO30    *)
(* padding, on a band edge                                                 *)
TileCritical(edges) ==
    Near({e + gtopo30_padding : e \in edges}
         \cup edges
         \cup {e - gtopo30_padding - s : e \in edges, s \in TileSpans}
         \cup {e - s : e \in edges, s \in TileSpans})

TileSouths ==
    {x \in TileCritical(TileLatEdges) : x >= south_latitude_limit}

TileWests == {x \in TileCritical(TileLonEdges) : x >= -1800 /\ x <= 1800}

(* a box whose east side passes +180 wraps around the antimeridian *)
WrapEast(x) == IF x > 1800 THEN x - 3600 ELSE x

(* boxes over three latitude bands (70 degrees high) or three longitude    *)
(* bands (100 degrees wide), one of them across the antimeridian           *)
WideTileBoxes ==
    {[north |-> s + sp, south |-> s, east |-> WrapEast(w + wd), west |-> w] :
        s \in {-200, 100}, sp \in {20, 700}, w \in {-500, 1500},
        wd \in {20, 1000}}

TileBoxes ==
    {[north |-> s + sp, south |-> s, east |-> WrapEast(w + wd), west |-> w] :
        s \in TileSouths, sp \in TileSpans, w \in TileWests, wd \in TileSpans}
    \cup WideTileBoxes

InitTiles ==
    /\ pc = "tiles_input"
    /\ box \in {b \in TileBoxes : b.north <= north_latitude_limit}
    /\ grid = NoGrid
    /\ catalog = [bil |-> {}, hdr |-> {}]
    /\ attempts = <<>>
    /\ caught = <<>>
    /\ error = "none"
    /\ files = {}
    /\ elevation_source = "unset"
    /\ points_inside = 0
    /\ gls_tile_list = {}
    /\ bil_list = {}
    /\ missing_count = 0
    /\ gtopo30_todo = {}
    /\ adjust_calls = 0
    /\ header_updates = 0
    /\ xml_source = "unset"
    /\ tile_result = NoTiles
    /\ dem_tile_result = NoTiles
    /\ elevation_raster = NoRaster
    /\ geoid_raster = NoRaster
    /\ call = NoCall
    /\ ret = NoCall

ApplyTileList ==
    /\ pc = "tiles_input"
    /\ tile_result' = get_gtopo30_tile_list(box)
    /\ dem_tile_result' = dem_get_gtopo30_tile_list(box)
    /\ pc' = "tiles_output"
    /\ UNCHANGED <<box, grid, catalog, attempts, caught, error, files,
                   elevation_source, points_inside, gls_tile_list, bil_list,
                   missing_count, gtopo30_todo, adjust_calls, header_updates,
                   xml_source, elevation_raster, geoid_raster, call, ret>>

NextTiles == ApplyTileList

SpecTiles == InitTiles /\ [][NextTiles]_vars

----------------------------------------------------------------------------
(* Properties.                                                             *)

LastAttempt == attempts[Len(attempts)]

(* C1: for a padded box with north_latitude <= -60.0 the first source      *)
(* attempted is RAMP; GTOPO30 is attempted next, and is the only other     *)
(* attempt, exactly when the coverage validator rejected the box           *)
(* (RAMPCoverageError, fewer than 3 points inside); GLS is never attempted.*)
C1_PolarAttemptOrder ==
    (pc \notin {"generate", "select"} /\ box.north <= -600) =>
        /\ Len(attempts) \in {1, 2}
        /\ attempts[1] = "ramp"
        /\ \A i \in 1..Len(attempts) : attempts[i] # "gls"
        /\ (Len(attempts) = 2) <=> (caught = <<"RAMPCoverageError">>)
        /\ (Len(attempts) = 2) => attempts[2] = "gtopo30" /\ points_inside < 3
        /\ pc \in {"ramp_warp", "ramp_unlink"} =>
               Len(attempts) = 1 /\ points_inside >= 3

C1_Witness ==
    /\ pc = "done"
    /\ box.north = -600
    /\ attempts = <<"ramp", "gtopo30">>

(* C2 as stated: for a padded box with north_latitude > -60.0, GLS is      *)
(* attempted first if and only if both north and south lie strictly inside *)
(* (-53, 83); every other such box attempts GTOPO30 only.                  *)
C2_WholeBoxInBand ==
    (Len(attempts) >= 1 /\ box.north > -600) =>
        LET inBand == /\ -530 < box.south /\ box.south < 830
                      /\ -530 < box.north /\ box.north < 830
        IN /\ (attempts[1] = "gls") <=> inBand
           /\ ~inBand => attempts = <<"gtopo30">>

(* C2 amended: for a padded box with north_latitude > -60.0, GTOPO30 is    *)
(* the only attempt exactly when north and south both lie in (-60, -53] or *)
(* both lie at or above 83; every other such box, including one that       *)
(* straddles -60, -53 or 83, attempts GLS first.                           *)
C2_GlsUnlessWhollyOutside ==
    (Len(attempts) >= 1 /\ box.north > -600) =>
        LET inGap(x) == -600 < x /\ x <= -530
            whollyOutside == \/ inGap(box.south) /\ inGap(box.north)
                             \/ box.south >= 830 /\ box.north >= 830
        IN /\ (attempts[1] = "gls") <=> ~whollyOutside
           /\ whollyOutside => attempts = <<"gtopo30">>

C2_Witness ==
    /\ Len(attempts) >= 1
    /\ attempts[1] = "gls"
    /\ box.north > -600
    /\ box.north <= -530
    /\ box.south <= -600

(* C3: in a successful run the datum adjustment is executed exactly once   *)
(* when the raster was produced by GLS or GTOPO30 (also GTOPO30 reached by *)
(* fallback), and not at all when it was produced by RAMP.                 *)
C3_AdjustOnceUnlessRamp ==
    pc = "done" =>
        /\ LastAttempt = "ramp" => adjust_calls = 0
        /\ LastAttempt \in {"gls", "gtopo30"} => adjust_calls = 1
        /\ LastAttempt \in {"ramp", "gls", "gtopo30"}

C3_Witness ==
    /\ pc = "done"
    /\ attempts = <<"ramp">>
    /\ adjust_calls = 0

(* C4: a further source is attempted only when RAMPCoverageError leaves    *)
(* the RAMP attempt or GLSOverWaterError leaves the GLS attempt; any other *)
(* error ends the run as a failure with no further attempt.                *)
C4_FallbackOnlyOnCoverage ==
    [][/\ (Len(attempts) >= 1 /\ attempts' # attempts) =>
              /\ attempts' = Append(attempts, "gtopo30")
              /\ \/ /\ LastAttempt = "ramp"
                    /\ caught' = Append(caught, "RAMPCoverageError")
                 \/ /\ LastAttempt = "gls"
                    /\ caught' = Append(caught, "GLSOverWaterError")
       /\ (error' # error) =>
              /\ pc' = "failed"
              /\ attempts' = attempts
              /\ caught' = caught
       /\ pc # "failed"]_vars

C4_Witness ==
    /\ pc = "failed"
    /\ error = "ExternalToolFailure"
    /\ attempts = <<"gls">>
    /\ bil_list # {}

(* C5: a box routed to GLS none of whose required tiles is in the catalog  *)
(* raises GLSOverWaterError, falls back to GTOPO30, is datum-adjusted and  *)
(* the run succeeds, unless the external engine fails.                     *)
C5_OverWaterSucceeds ==
    (/\ Terminated
     /\ Len(attempts) >= 1
     /\ attempts[1] = "gls"
     /\ gls_tile_list # {}
     /\ \A t \in gls_tile_list : t \notin catalog.bil \/ t \notin catalog.hdr
     /\ error \notin {"ExternalToolFailure", "SizeMismatch", "GdalError"}) =>
        /\ pc = "done"
        /\ caught = <<"GLSOverWaterError">>
        /\ attempts = <<"gls", "gtopo30">>
        /\ adjust_calls = 1

(* C6: when the run ends with a fatal error of the external engine or of   *)
(* the size check, no temporary artifact is left in the working directory. *)
C6_FailureLeavesNoResidue ==
    (pc = "failed" /\ error \in {"ExternalToolFailure", "SizeMismatch"}) =>
        TemporaryFiles(files) = {}

(* C7: when the run succeeds, by any path, only the elevation raster and   *)
(* its header are left in the working directory.                           *)
C7_SuccessLeavesOnlyElevation ==
    pc = "done" => files = ElevationFiles

(* C8: get_gtopo30_tile_list raises no error and returns at least one tile *)
(* for every box with south <= north inside [-90, 90].                     *)
C8_AlwaysSomeTile ==
    pc = "tiles_output" =>
        /\ ~tile_result.raised
        /\ Cardinality(tile_result.tiles) >= 1

InC9Box(b) ==
    /\ -100 <= b.south /\ b.south <= b.north /\ b.north <= 400
    /\ -200 <= b.west /\ b.west <= b.east /\ b.east <= 200

(* C9 as stated: for a box inside latitude [-10, 40] and longitude         *)
(* [-20, 20] exactly one tile is returned, that of the latitude band with  *)
(* northern edge 40 and the longitude band with western edge -20.          *)
C9_OneTileInsideBand ==
    (pc = "tiles_output" /\ InC9Box(box)) =>
        /\ ~tile_result.raised
        /\ tile_result.tiles = {Gtopo30TileName(400, -200)}
        /\ dem_tile_result.tiles = {<<"w", "0", "2", "0", "n", "4", "0">>}

(* C9 amended: for a box that keeps the 1 degree GTOPO30 padding inside    *)
(* the band (-9 <= south <= north < 39 and -19 < west <= east <= 19)       *)
(* exactly one tile is returned, that of the latitude band with northern   *)
(* edge 40 and the longitude band with western edge -20 (w020n40 in        *)
(* create_dem.py).                                                         *)
C9_OneTileInsidePaddedBand ==
    (/\ pc = "tiles_output"
     /\ -90 <= box.south /\ box.south <= box.north /\ box.north < 390
     /\ -190 < box.west /\ box.west <= box.east /\ box.east <= 190) =>
        /\ ~tile_result.raised
        /\ Cardinality(tile_result.tiles) = 1
        /\ tile_result.tiles = {Gtopo30TileName(400, -200)}
        /\ dem_tile_result.tiles = {<<"w", "0", "2", "0", "n", "4", "0">>}

C9_Witness ==
    /\ pc = "tiles_output"
    /\ box.south = -90
    /\ box.north = -90
    /\ box.west = 170
    /\ box.east = 190
    /\ dem_tile_result.tiles = {<<"w", "0", "2", "0", "n", "4", "0">>}

WellFormedGtopo30Name(n) ==
    /\ Len(n) = 7
    /\ n[1] \in {"e", "w"}
    /\ \A i \in {2, 3, 4} : IsDigit(n[i])
    /\ n[5] \in {"n", "s"}
    /\ \A i \in {6, 7} : IsDigit(n[i])

(* C10: every name returned has the form <e|w><3 digits><n|s><2 digits>,   *)
(* and build_elevation_band.py and create_dem.py return the same names.    *)
C10_TileNameForm ==
    pc = "tiles_output" =>
        /\ \A n \in tile_result.tiles : WellFormedGtopo30Name(n)
        /\ \A n \in dem_tile_result.tiles : WellFormedGtopo30Name(n)
        /\ tile_result.tiles = dem_tile_result.tiles

----------------------------------------------------------------------------
(* The tile enumeration of generate_using_gls applied to bounding boxes as *)
(* a function of the four bounding fields.                                 *)

GlsSouths == Near({-10, 0, 443})
GlsWests == Near({-1190, -1187, 0, 1790})
GlsSpans == {0, 7, 10}

GlsBoxes ==
    {[north |-> s + sp, south |-> s, east |-> WrapEast(w + wd), west |-> w] :
        s \in GlsSouths, sp \in GlsSpans, w \in GlsWests, wd \in GlsSpans}

InitGls ==
    /\ pc = "gls_input"
    /\ box \in GlsBoxes
    /\ grid = NoGrid
    /\ catalog = [bil |-> {}, hdr |-> {}]
    /\ attempts = <<>>
    /\ caught = <<>>
    /\ error = "none"
    /\ files = {}
    /\ elevation_source = "unset"
    /\ points_inside = 0
    /\ gls_tile_list = {}
    /\ bil_list = {}
    /\ missing_count = 0
    /\ gtopo30_todo = {}
    /\ adjust_calls = 0
    /\ header_updates = 0
    /\ xml_source = "unset"
    /\ tile_result = NoTiles
    /\ dem_tile_result = NoTiles
    /\ elevation_raster = NoRaster
    /\ geoid_raster = NoRaster
    /\ call = NoCall
    /\ ret = NoCall

(* the enumeration loops: tile_list holds one name per (lat, lon) *)
ApplyGlsTileList ==
    /\ pc = "gls_input"
    /\ gls_tile_list' = GlsTileList(box)
    /\ ret' = [tile_list |->
                  {GlsTileName(t[1], t[2]) : t \in GlsTileList(box)}]
    /\ pc' = "gls_output"
    /\ UNCHANGED <<box, grid, catalog, attempts, caught, error, files,
                   elevation_source, points_inside, bil_list, missing_count,
                   gtopo30_todo, adjust_calls, header_updates, xml_source,
                   tile_result, dem_tile_result, elevation_raster,
                   geoid_raster, call>>

NextGls == ApplyGlsTileList

SpecGls == InitGls /\ [][NextGls]_vars

(* the whole degree at or below, and at or above, an angle in tenths *)
WholeDegreeBelow(x) == CHOOSE k \in -200..200 : 10 * k <= x /\ x < 10 * k + 10
WholeDegreeAbove(x) == CHOOSE k \in -200..200 : 10 * k - 10 < x /\ x <= 10 * k

(* C11 as stated: the number of enumerated tile identifiers is             *)
(* (floor(north) - floor(south) + 1) x (ceil(east) - floor(west) + 1).     *)
C11_TileCountCeilEast ==
    pc = "gls_output" =>
        Cardinality(ret.tile_list) =
            (WholeDegreeBelow(box.north) - WholeDegreeBelow(box.south) + 1)
            * (WholeDegreeAbove(box.east) - WholeDegreeBelow(box.west) + 1)

(* C11 amended: the number of enumerated tile identifiers is               *)
(* (floor(north) - floor(south) + 1) x (floor(east) - floor(west) + 1),    *)
(* each factor counted as 0 when it is negative (an empty range).          *)
C11_TileCountFloorEast ==
    pc = "gls_output" =>
        Cardinality(ret.tile_list) =
            Max2(0, WholeDegreeBelow(box.north) - WholeDegreeBelow(box.south) + 1)
            * Max2(0, WholeDegreeBelow(box.east) - WholeDegreeBelow(box.west) + 1)

(* a box whose east side is not a whole degree and that spans two tile     *)
(* columns and two tile rows has been enumerated                           *)
C11_Witness ==
    /\ pc = "gls_output"
    /\ box.east % 10 # 0
    /\ box.west < box.east
    /\ Cardinality(ret.tile_list) = 4

(* Reading a GLS tile name back: the sign letters and the digit fields. *)
DigitValue(c) == CHOOSE i \in 0..9 : Digits[i + 1] = c

WellFormedGlsName(n) ==
    /\ Len(n) = 7
    /\ n[1] \in {"n", "s"}
    /\ n[4] \in {"e", "w"}
    /\ \A i \in {2, 3, 5, 6, 7} : IsDigit(n[i])

GlsNameLat(n) ==
    (IF n[1] = "s" THEN -1 ELSE 1) * (10 * DigitValue(n[2]) + DigitValue(n[3]))

GlsNameLon(n) ==
    (IF n[4] = "w" THEN -1 ELSE 1)
    * (100 * DigitValue(n[5]) + 10 * DigitValue(n[6]) + DigitValue(n[7]))

(* C12: the enumerated names are exactly one well-formed name              *)
(* <n|s><2-digit |lat|><e|w><3-digit |lon|> per whole-degree cell (lat,    *)
(* lon) with floor(south) <= lat <= floor(north) and floor(west) <= lon <= *)
(* floor(east), with 's' only for lat < 0 and 'w' only for lon < 0; the    *)
(* box south = north = 44.3, west = east = -118.7 gives n44w119 alone.     *)
C12_CartesianProductNamed ==
    pc = "gls_output" =>
        LET lats == {l \in -90..90 : 10 * l + 10 > box.south /\ 10 * l <= box.north}
            lons == {l \in -181..181 : 10 * l + 10 > box.west /\ 10 * l <= box.east}
            cells == lats \X lons
        IN /\ \A n \in ret.tile_list :
                /\ WellFormedGlsName(n)
                /\ n[1] = "s" <=> GlsNameLat(n) < 0
                /\ n[4] = "w" <=> GlsNameLon(n) < 0
           /\ {<<GlsNameLat(n), GlsNameLon(n)>> : n \in ret.tile_list} = cells
           /\ Cardinality(ret.tile_list) = Cardinality(cells)
           /\ box = [north |-> 443, south |-> 443, east |-> -1187, west |-> -1187]
                => ret.tile_list = {<<"n", "4", "4", "w", "1", "1", "9">>}

(* the box of the example has been enumerated *)
C12_Witness ==
    /\ pc = "gls_output"
    /\ box = [north |-> 443, south |-> 443, east |-> -1187, west |-> -1187]
    /\ ret.tile_list = {<<"n", "4", "4", "w", "1", "1", "9">>}

(* C13: once the catalog has been consulted, GLSOverWaterError has been    *)
(* raised exactly when no enumerated tile has both its .bil and its .hdr   *)
(* file; otherwise the tiles handed to the mosaic are exactly the ones     *)
(* having both files, and missing_count plus their number is the number of *)
(* enumerated tiles.                                                       *)
C13_OverWaterIffAllAbsent ==
    LET both == {t \in gls_tile_list : t \in catalog.bil /\ t \in catalog.hdr}
        consulted == /\ \E i \in 1..Len(attempts) : attempts[i] = "gls"
                     /\ pc \notin {"gls_tiles", "gls_link"}
                     /\ gls_tile_list # {}
        overwater == \E i \in 1..Len(caught) : caught[i] = "GLSOverWaterError"
    IN /\ consulted => (overwater <=> both = {})
       /\ pc = "gls_mosaic" =>
            /\ bil_list = {GlsTileName(t[1], t[2]) : t \in both}
            /\ missing_count + Cardinality(bil_list) = Cardinality(gls_tile_list)

(* the mosaic is reached with one tile found and one tile missing *)
C13_Witness ==
    /\ pc = "gls_mosaic"
    /\ Cardinality(bil_list) = 1
    /\ missing_count = 1

----------------------------------------------------------------------------
(* Functions applied on their own: no run of generate() is in progress.    *)

pipeline == <<box, grid, catalog, attempts, caught, error, files, elevation_source,
              points_inside, gls_tile_list, bil_list, missing_count,
              gtopo30_todo, adjust_calls, header_updates, xml_source,
              tile_result, dem_tile_result, elevation_raster, geoid_raster>>

PipelineIdle ==
    /\ box = [north |-> 0, south |-> 0, east |-> 0, west |-> 0]
    /\ grid = NoGrid
    /\ catalog = [bil |-> {}, hdr |-> {}]
    /\ attempts = <<>>
    /\ caught = <<>>
    /\ error = "none"
    /\ files = {}
    /\ elevation_source = "unset"
    /\ points_inside = 0
    /\ gls_tile_list = {}
    /\ bil_list = {}
    /\ missing_count = 0
    /\ gtopo30_todo = {}
    /\ adjust_calls = 0
    /\ header_updates = 0
    /\ xml_source = "unset"
    /\ tile_result = NoTiles
    /\ dem_tile_result = NoTiles
    /\ elevation_raster = NoRaster
    /\ geoid_raster = NoRaster

----------------------------------------------------------------------------
(* _verify_ramp_overlap applied to RAMP footprints and five map points.    *)

(* <<lines, samples, geotransform>> of north-up rasters: one covering      *)
(* x in [-4, 4], y in [-4, 4] and one covering x in [0, 8], y in [-2, 0]   *)
RampFootprints ==
    {<<5, 5, <<-4, 2, 0, 4, 0, -2>>>>, <<3, 9, <<0, 1, 0, 0, 0, -1>>>>}

(* inside both footprints, inside one of them, outside both *)
MapPoints == {<<1, -1>>, <<-2, 2>>, <<7, -1>>, <<20, 20>>}

InitRamp ==
    /\ pc = "ramp_input"
    /\ \E f \in RampFootprints, pts \in [1..5 -> MapPoints] :
          call = [ramp_lines |-> f[1], ramp_samples |-> f[2],
                  ramp_transform |-> f[3], points |-> pts]
    /\ ret = NoCall
    /\ PipelineIdle

ApplyVerifyRampOverlap ==
    /\ pc = "ramp_input"
    /\ ret' = verify_ramp_overlap(call.ramp_lines, call.ramp_samples,
                                  call.ramp_transform, call.points)
    /\ pc' = "ramp_output"
    /\ UNCHANGED <<pipeline, call>>

NextRamp == ApplyVerifyRampOverlap

SpecRamp == InitRamp /\ [][NextRamp]_vars

(* a point strictly inside the north-up footprint of the call *)
StrictlyInsideFootprint(c, pt) ==
    LET x_min == c.ramp_transform[1]
        x_max == c.ramp_transform[1] + (c.ramp_samples - 1) * c.ramp_transform[2]
        y_max == c.ramp_transform[4]
        y_min == c.ramp_transform[4] + (c.ramp_lines - 1) * c.ramp_transform[6]
    IN x_min < pt[1] /\ pt[1] < x_max /\ y_min < pt[2] /\ pt[2] < y_max

PointsInsideFootprint(c) ==
    Cardinality({i \in 1..5 : StrictlyInsideFootprint(c, c.points[i])})

(* C14: _verify_ramp_overlap tests the five points (four corners and the   *)
(* center) and raises RAMPCoverageError exactly when fewer than 3 of them  *)
(* lie inside the RAMP footprint.                                          *)
C14_RejectsBelowThreePoints ==
    pc = "ramp_output" =>
        /\ ret.tested = 5
        /\ ret.points_in_polygon = PointsInsideFootprint(call)
        /\ ret.raised = "RAMPCoverageError" <=> PointsInsideFootprint(call) < 3
        /\ ret.raised \in {"RAMPCoverageError", "none"}

(* exactly three points inside: accepted *)
C14_Witness ==
    /\ pc = "ramp_output"
    /\ PointsInsideFootprint(call) = 3
    /\ ret.raised = "none"

----------------------------------------------------------------------------
(* Math.point_in_polygon applied to vertex lists and test points.          *)

(* vertices lie on the even coordinates 0, 2, .., 2 * GridMax; test points *)
(* on every integer from -1 to 2 * GridMax + 1                             *)
GridMax == 2

GridVertices == {<<2 * i, 2 * j>> : i \in 0..GridMax, j \in 0..GridMax}

TestCoordinates == -1..(2 * GridMax + 1)

Collinear(a, b, c) ==
    (b[1] - a[1]) * (c[2] - a[2]) = (b[2] - a[2]) * (c[1] - a[1])

TriangleRings ==
    {t \in {<<a, b, c, a>> : a \in GridVertices, b \in GridVertices,
                             c \in GridVertices} : ~Collinear(t[1], t[2], t[3])}

(* the four corners of a square in ring order *)
SquareCorners(x, y, side) ==
    <<<<x, y>>, <<x, y + side>>, <<x + side, y + side>>, <<x + side, y>>>>

Reverse(seq) == [i \in 1..Len(seq) |-> seq[Len(seq) + 1 - i]]

(* every closed ring over the corners: any first corner, either direction *)
RingsOver(corners) ==
    LET n == Len(corners)
        from(k) == [i \in 1..(n + 1) |-> corners[((k + i - 2) % n) + 1]]
    IN {from(k) : k \in 1..n} \cup {Reverse(from(k)) : k \in 1..n}

SquareRings ==
    UNION {RingsOver(SquareCorners(w[1][1], w[1][2], 2 * w[2])) :
            w \in {v \in GridVertices \X (1..GridMax) :
                     /\ v[1][1] + 2 * v[2] <= 2 * GridMax
                     /\ v[1][2] + 2 * v[2] <= 2 * GridMax}}

(* a concave ring: a square with a notch cut into its right side *)
ConcaveRings == RingsOver(<<<<0, 0>>, <<0, 4>>, <<4, 4>>, <<2, 2>>, <<4, 0>>>>)

(* a square ring whose last vertex is moved off the first in x, y or both *)
OpenLists ==
    {[r EXCEPT ![Len(r)] = <<r[1][1] + d[1], r[1][2] + d[2]>>] :
        r \in SquareRings, d \in {<<1, 0>>, <<0, 1>>, <<1, 1>>}}

ShortLists ==
    {<<>>, <<<<0, 0>>>>, <<<<0, 0>>, <<2, 2>>>>, <<<<0, 0>>, <<2, 2>>, <<0, 0>>>>,
     <<<<0, 0>>, <<2, 2>>, <<2, 0>>>>}

VertexLists ==
    TriangleRings \cup SquareRings \cup ConcaveRings \cup OpenLists \cup ShortLists

InitPolygon ==
    /\ pc = "polygon_input"
    /\ \E v \in VertexLists, x \in TestCoordinates, y \in TestCoordinates :
          call = [vertices |-> v, x_c |-> x, y_c |-> y]
    /\ ret = NoCall
    /\ PipelineIdle

(* the function applied to the list as given and to the list reversed *)
ApplyPointInPolygon ==
    /\ pc = "polygon_input"
    /\ ret' = [forward |-> point_in_polygon(call.vertices, call.x_c, call.y_c),
               reversed |-> point_in_polygon(Reverse(call.vertices),
                                             call.x_c, call.y_c)]
    /\ pc' = "polygon_output"
    /\ UNCHANGED <<pipeline, call>>

NextPolygon == ApplyPointInPolygon

SpecPolygon == InitPolygon /\ [][NextPolygon]_vars

(* C15: point_in_polygon raises MathError for every vertex list with fewer *)
(* than 4 vertices and for every list whose first vertex is not its last   *)
(* vertex, whether they differ in x, in y or in both.                      *)
C15_RejectsShortOrOpenList ==
    (/\ pc = "polygon_output"
     /\ \/ Len(call.vertices) < 4
        \/ call.vertices[1] # call.vertices[Len(call.vertices)])
        => ret.forward.raised = "MathError"

Xs(v) == {v[i][1] : i \in 1..Len(v)}
Ys(v) == {v[i][2] : i \in 1..Len(v)}

(* a closed ring of five vertices around an axis-aligned square *)
IsSquareRing(v) ==
    /\ Len(v) = 5
    /\ v[1] = v[5]
    /\ Cardinality({v[i] : i \in 1..4}) = 4
    /\ Cardinality(Xs(v)) = 2
    /\ Cardinality(Ys(v)) = 2
    /\ SetMax(Xs(v)) - SetMin(Xs(v)) = SetMax(Ys(v)) - SetMin(Ys(v))
    /\ \A i \in 1..4 : (v[i][1] = v[i + 1][1]) # (v[i][2] = v[i + 1][2])

StrictlyInsideBox(v, x, y) ==
    /\ SetMin(Xs(v)) < x /\ x < SetMax(Xs(v))
    /\ SetMin(Ys(v)) < y /\ y < SetMax(Ys(v))

StrictlyOutsideBox(v, x, y) ==
    \/ x < SetMin(Xs(v)) \/ x > SetMax(Xs(v))
    \/ y < SetMin(Ys(v)) \/ y > SetMax(Ys(v))

(* C16: for a closed axis-aligned square ring, point_in_polygon returns    *)
(* True for a point strictly inside the square and False for a point       *)
(* strictly outside it.                                                    *)
C16_SquareInsideOutside ==
    (pc = "polygon_output" /\ IsSquareRing(call.vertices)) =>
        /\ ret.forward.raised = "none"
        /\ StrictlyInsideBox(call.vertices, call.x_c, call.y_c)
              => ret.forward.inside
        /\ StrictlyOutsideBox(call.vertices, call.x_c, call.y_c)
              => ~ret.forward.inside

(* a square ring listed counter-clockwise, with a point strictly inside *)
C16_Witness ==
    /\ pc = "polygon_output"
    /\ call.vertices = <<<<0, 0>>, <<4, 0>>, <<4, 4>>, <<0, 4>>, <<0, 0>>>>
    /\ StrictlyInsideBox(call.vertices, call.x_c, call.y_c)
    /\ ret.forward.inside

(* twice the signed area of the triangle a, b, c *)
Orient(a, b, c) ==
    (b[1] - a[1]) * (c[2] - a[2]) - (b[2] - a[2]) * (c[1] - a[1])

Sign(n) == IF n > 0 THEN 1 ELSE IF n < 0 THEN -1 ELSE 0

(* c lies on the closed segment a b, given that a, b, c are collinear *)
Within(a, b, c) ==
    /\ Min2(a[1], b[1]) <= c[1] /\ c[1] <= Max2(a[1], b[1])
    /\ Min2(a[2], b[2]) <= c[2] /\ c[2] <= Max2(a[2], b[2])

(* the closed segments a b and c d have a point in common *)
SegmentsMeet(a, b, c, d) ==
    \/ /\ Sign(Orient(a, b, c)) * Sign(Orient(a, b, d)) < 0
       /\ Sign(Orient(c, d, a)) * Sign(Orient(c, d, b)) < 0
    \/ Orient(a, b, c) = 0 /\ Within(a, b, c)
    \/ Orient(a, b, d) = 0 /\ Within(a, b, d)
    \/ Orient(c, d, a) = 0 /\ Within(c, d, a)
    \/ Orient(c, d, b) = 0 /\ Within(c, d, b)

(* a closed ring whose edges meet only at shared end points *)
IsSimpleRing(v) ==
    LET n == Len(v) - 1
    IN /\ Len(v) >= 4
       /\ v[1] = v[Len(v)]
       /\ Cardinality({v[i] : i \in 1..n}) = n
       /\ \A i \in 1..n : \A j \in (i + 1)..n :
            IF j = i + 1 \/ (i = 1 /\ j = n)
            THEN LET shared == IF j = i + 1 THEN v[j] ELSE v[1]
                     p == IF j = i + 1 THEN v[i] ELSE v[2]
                     q == IF j = i + 1 THEN v[j + 1] ELSE v[n]
                 IN ~(Orient(shared, p, q) = 0 /\ Within(shared, p, q))
                    /\ ~(Orient(shared, q, p) = 0 /\ Within(shared, q, p))
            ELSE ~SegmentsMeet(v[i], v[i + 1], v[j], v[j + 1])

----------------------------------------------------------------------------
(* Math.longitude_norm run loop iteration by loop iteration, on Python     *)
(* floats.  A float of magnitude above 2^62 has neighbours more than 720   *)
(* apart, so adding or subtracting 360.0 rounds back to the same float;    *)
(* HugeLongitude stands for such a float.  All other values are exact.     *)

HugeLongitude == 2000000000

Absorbs(r) == r >= HugeLongitude \/ r <= -HugeLongitude

(* result += 360.0 *)
FloatAdd360(r) == IF Absorbs(r) THEN r ELSE r + 3600

(* result -= 360.0 *)
FloatSub360(r) == IF Absorbs(r) THEN r ELSE r - 3600

(* whole turns by which an explored longitude lies outside [-180, 180) *)
MaxTurns == 2

NormInputs ==
    {c + 3600 * k : c \in Near({-1800, 0, 1800}), k \in -MaxTurns..MaxTurns}
    \cup {HugeLongitude, -HugeLongitude}

(* the function is called on the input and then on its own result;         *)
(* iterations is the number of loop iterations run so far, modulo 2        *)
InitNorm ==
    /\ pc = "norm_up"
    /\ call \in [longitude : NormInputs]
    /\ ret = [result |-> call.longitude, returned |-> <<>>, iterations |-> 0]
    /\ PipelineIdle

(* while result < -180.0: result += 360.0 *)
NormUpStep ==
    /\ pc = "norm_up"
    /\ IF ret.result < -1800
       THEN /\ ret' = [ret EXCEPT !.result = FloatAdd360(@),
                                  !.iterations = 1 - @]
            /\ pc' = pc
       ELSE /\ pc' = "norm_down"
            /\ ret' = ret
    /\ UNCHANGED <<pipeline, call>>

(* while result >= 180.0: result -= 360.0 *)
NormDownStep ==
    /\ pc = "norm_down"
    /\ IF ret.result >= 1800
       THEN /\ ret' = [ret EXCEPT !.result = FloatSub360(@),
                                  !.iterations = 1 - @]
            /\ pc' = pc
       ELSE /\ pc' = "norm_return"
            /\ ret' = ret
    /\ UNCHANGED <<pipeline, call>>

(* return result; the first result is passed to a second call *)
NormReturn ==
    /\ pc = "norm_return"
    /\ ret' = [ret EXCEPT !.returned = Append(@, ret.result)]
    /\ pc' = IF Len(ret.returned) = 0 THEN "norm_up" ELSE "norm_done"
    /\ UNCHANGED <<pipeline, call>>

NextNorm == NormUpStep \/ NormDownStep \/ NormReturn

(* the interpreter keeps running the loop it is in *)
SpecNorm == InitNorm /\ [][NextNorm]_vars /\ WF_vars(NextNorm)

(* C18: longitude_norm terminates for every finite input, its result r has *)
(* -180 <= r < 180 and differs from the input by a whole multiple of 360,  *)
(* and applying it to r returns r.                                         *)
C18_NormTerminatesInRange ==
    /\ <>(pc = "norm_done")
    /\ [](pc = "norm_done" =>
            /\ -1800 <= ret.returned[1] /\ ret.returned[1] < 1800
            /\ (ret.returned[1] - call.longitude) % 3600 = 0
            /\ ret.returned[2] = ret.returned[1])

----------------------------------------------------------------------------
(* adjust_elevation_to_wgs84 inside the run of generate().                 *)

(* C19: the step of adjust_elevation_to_wgs84 that writes the elevation    *)
(* back leaves in every pixel the arithmetic sum of the pixel's previous   *)
(* elevation and the warped geoid value at the same position.              *)
C19_PixelIsArithmeticSum ==
    [][(pc = "adjust_combine" /\ pc' = "adjust_cleanup") =>
        /\ Len(elevation_raster'.data) = Len(elevation_raster.data)
        /\ \A i \in 1..Len(elevation_raster.data) :
              elevation_raster'.data[i] =
                  elevation_raster.data[i] + geoid_raster.data[i]]_vars

(* C20: when the warped geoid and the elevation raster differ in width or  *)
(* in height, the combining step raises, the run fails, and the elevation  *)
(* raster keeps its content, also after the failure.                       *)
C20_MismatchFailsUnchanged ==
    [][/\ (/\ pc = "adjust_combine"
           /\ \/ geoid_raster.xsize # elevation_raster.xsize
              \/ geoid_raster.ysize # elevation_raster.ysize)
          => /\ pc' = "failed"
             /\ error' = "SizeMismatch"
             /\ elevation_raster' = elevation_raster
       /\ error = "SizeMismatch"
          => /\ pc' = "failed"
             /\ elevation_raster' = elevation_raster]_vars

(* a run that failed on rasters of the same width and different heights *)
C20_Witness ==
    /\ pc = "failed"
    /\ error = "SizeMismatch"
    /\ geoid_raster.xsize = elevation_raster.xsize
    /\ geoid_raster.ysize # elevation_raster.ysize
    /\ elevation_raster \in WarpedElevations

----------------------------------------------------------------------------
(* Geo.warp and execute_cmd: the gdalwarp command line and its outcome.    *)
(* An optional argument is <<>> (None) or <<value>>; a command line is the *)
(* sequence of its options <<flag, arguments>>, the program name first and *)
(* the source and output file names last.                                  *)

Option(flag, given, arguments) ==
    IF given THEN <<<<flag, arguments>>>> ELSE <<>>

(* Geo.warp up to ' '.join(cmd) *)
WarpCommand(a) ==
    IF (a.resolution_x # None) # (a.resolution_y # None)
    THEN [raised |-> "GeoError", cmd |-> <<>>]
    ELSE IF a.source_data = None \/ a.output_filename = None
    THEN [raised |-> "GeoError", cmd |-> <<>>]
    ELSE [raised |-> "none",
          cmd |-> <<<<"gdalwarp", <<"-wm", "2048", "-multi", "-overwrite">>>>>>
                  \o Option("-r", a.resampling_method # None, a.resampling_method)
                  \o Option("-tr", a.resolution_x # None /\ a.resolution_y # None,
                            a.resolution_x \o a.resolution_y)
                  \o Option("-t_srs", a.target_srs # None, a.target_srs)
                  \o Option("-te", a.image_extents # None, a.image_extents)
                  \o Option("-dstnodata", a.destination_no_data # None,
                            a.destination_no_data)
                  \o Option("-ot", a.output_data_type # None, a.output_data_type)
                  \o Option("-of", a.output_format # None, a.output_format)
                  \o <<<<"source", a.source_data>>,
                       <<"output", a.output_filename>>>>]

(* os.WEXITSTATUS of a 16-bit wait status *)
WEXITSTATUS(status) == (status \div 256) % 256

(* variant: only the exit code of the wait status is looked at *)
execute_cmd_by_exit_code(cmd, status, output) ==
    IF WEXITSTATUS(status) # 0
    THEN [raised |-> "Exception", returned |-> "",
          message |-> [text |-> "returned error code", cmd |-> cmd,
                       output |-> output]]
    ELSE [raised |-> "none", returned |-> output,
          message |-> [text |-> "", cmd |-> <<>>, output |-> ""]]

(* execute_cmd after commands.getstatusoutput(cmd) gave (status, output);  *)
(* message holds the text and the two values formatted into it             *)
execute_cmd(cmd, status, output) ==
    IF status < 0
    THEN [raised |-> "Exception", returned |-> "",
          message |-> [text |-> "terminated by signal", cmd |-> cmd,
                       output |-> output]]
    ELSE IF status # 0
    THEN [raised |-> "Exception", returned |-> "",
          message |-> [text |-> "failed to execute", cmd |-> cmd,
                       output |-> output]]
    ELSE IF WEXITSTATUS(status) # 0
    THEN [raised |-> "Exception", returned |-> "",
          message |-> [text |-> "returned error code", cmd |-> cmd,
                       output |-> output]]
    ELSE [raised |-> "none", returned |-> output,
          message |-> [text |-> "", cmd |-> <<>>, output |-> ""]]

(* the keyword arguments of warp_to_source_data(source_name) *)
ElevationWarpArguments(self, source_name) ==
    [resampling_method |-> <<"bilinear">>,
     resolution_x |-> self.pixel_resolution_x,
     resolution_y |-> self.pixel_resolution_y,
     target_srs |-> self.target_srs,
     image_extents |-> self.extents,
     destination_no_data |-> None,
     output_data_type |-> <<"Int16">>,
     output_format |-> <<"ENVI">>,
     source_data |-> <<source_name>>,
     output_filename |-> <<"elevation_image">>]

(* the keyword arguments of the geoid warp of adjust_elevation_to_wgs84 *)
GeoidWarpArguments(self) ==
    [resampling_method |-> <<"bilinear">>,
     resolution_x |-> self.pixel_resolution_x,
     resolution_y |-> self.pixel_resolution_y,
     target_srs |-> self.target_srs,
     image_extents |-> self.extents,
     destination_no_data |-> None,
     output_data_type |-> <<"Int16">>,
     output_format |-> <<"ENVI">>,
     source_data |-> <<"geoid_image_link">>,
     output_filename |-> <<"espa_geoid_image">>]

(* Geo.warp: build the command, run it *)
GeoWarp(a, status, output) ==
    LET built == WarpCommand(a)
    IN IF built.raised # "none"
       THEN [cmd |-> <<>>, raised |-> built.raised,
             run |-> execute_cmd(<<>>, 0, "")]
       ELSE [cmd |-> built.cmd,
             raised |-> execute_cmd(built.cmd, status, output).raised,
             run |-> execute_cmd(built.cmd, status, output)]

(* target grids of the explored scenes *)
TargetGrids ==
    [pixel_resolution_x : {<<30>>, <<15>>},
     pixel_resolution_y : {<<30>>, <<15>>},
     target_srs : {<<"+proj=utm +zone=11">>, <<"+proj=stere +lat_0=-90">>},
     extents : {<<0, 0, 60, 60>>, <<-90, -90, 90, 90>>}]

(* largest exit code of the explored wait statuses *)
MaxExitCode == 3

(* wait statuses: exit codes, termination by a signal, and by a signal     *)
(* with a core dump                                                        *)
WaitStatuses ==
    {256 * e : e \in 0..MaxExitCode} \cup {2, 9, 11, 15} \cup {128 + 11}

EngineOutputs == {"", "ERROR 4: No such file or directory"}

InitWarp ==
    /\ pc = "warp_input"
    /\ call \in [grid : TargetGrids,
                  source_name : {"ramp_image_link", "mosaic_image", "geoid"},
                  status : WaitStatuses,
                  output : EngineOutputs]
    /\ ret = NoCall
    /\ PipelineIdle

ApplyWarpToSourceData ==
    /\ pc = "warp_input"
    /\ call.source_name # "geoid"
    /\ ret' = GeoWarp(ElevationWarpArguments(call.grid, call.source_name),
                      call.status, call.output)
    /\ pc' = "warp_output"
    /\ UNCHANGED <<pipeline, call>>

ApplyGeoidWarp ==
    /\ pc = "warp_input"
    /\ call.source_name = "geoid"
    /\ ret' = GeoWarp(GeoidWarpArguments(call.grid), call.status, call.output)
    /\ pc' = "warp_output"
    /\ UNCHANGED <<pipeline, call>>

NextWarp == ApplyWarpToSourceData \/ ApplyGeoidWarp

SpecWarp == InitWarp /\ [][NextWarp]_vars

HasOption(cmd, flag) == \E i \in 1..Len(cmd) : cmd[i][1] = flag

OptionValue(cmd, flag) ==
    cmd[CHOOSE i \in 1..Len(cmd) : cmd[i][1] = flag][2]

(* C21: the command of every warp onto the target grid carries the target  *)
(* resolution, the target SRS, the target extent, the output pixel type    *)
(* and a destination no-data value.                                        *)
C21_WarpPassesGridAndNoData ==
    pc = "warp_output" =>
        /\ HasOption(ret.cmd, "-tr")
        /\ OptionValue(ret.cmd, "-tr")
             = call.grid.pixel_resolution_x \o call.grid.pixel_resolution_y
        /\ HasOption(ret.cmd, "-t_srs")
        /\ OptionValue(ret.cmd, "-t_srs") = call.grid.target_srs
        /\ HasOption(ret.cmd, "-te")
        /\ OptionValue(ret.cmd, "-te") = call.grid.extents
        /\ HasOption(ret.cmd, "-ot")
        /\ HasOption(ret.cmd, "-dstnodata")

(* C22: execute_cmd returns the captured output only for status 0 and      *)
(* raises for every other wait status, exit code or signal; the message of *)
(* the error carries the command line and, when not empty, the output.     *)
C22_RaisesUnlessStatusZero ==
    pc = "warp_output" =>
        /\ call.status = 0 =>
              /\ ret.run.raised = "none"
              /\ ret.run.returned = call.output
        /\ call.status # 0 =>
              /\ ret.run.raised = "Exception"
              /\ ret.run.message.cmd = ret.cmd
              /\ Len(ret.cmd) > 0
              /\ call.output # "" => ret.run.message.output = call.output

(* a command ended by signal 9, with captured output *)
C22_Witness ==
    /\ pc = "warp_output"
    /\ call.status = 9
    /\ call.output # ""
    /\ ret.run.raised = "Exception"
    /\ ret.run.message.output = call.output

(***************************************************************************)
(* generate(): the ENVI header update and the XML band                     *)
(***************************************************************************)

(* The steps of generate() that follow the header update. *)
AfterHeaderUpdate == pc \in {"add_band", "done"}

(* C23: a run of generate() that succeeds updates the ENVI header exactly  *)
(* once, and it does so after the last warp onto the target grid and after *)
(* the datum adjustment when one is applied: once the header is updated    *)
(* the warped elevation raster exists, an adjustment that was started is   *)
(* finished, and only the XML step remains.  A run that fails before the   *)
(* header update has updated no header and added no band to the XML.       *)
C23_HeaderOnceAfterWarp ==
    /\ header_updates <= 1
    /\ pc = "done" => header_updates = 1
    /\ header_updates = 1 =>
          /\ AfterHeaderUpdate
          /\ ElevationFiles \subseteq files
          /\ elevation_raster # NoRaster
          /\ adjust_calls = IF elevation_source = "ramp" THEN 0 ELSE 1
          /\ geoid_raster = NoRaster
    /\ pc = "failed" => header_updates = 0 /\ xml_source = "unset"
    /\ xml_source # "unset" => header_updates = 1

C23_Witness ==
    /\ pc = "done"
    /\ header_updates = 1
    /\ adjust_calls = 1
    /\ xml_source = "gls"

(***************************************************************************)
(* mosaic_tiles: the tile list it is called with                           *)
(***************************************************************************)

(* C24: whenever mosaic_tiles is about to be called, the list it receives  *)
(* has at least one tile: from generate_using_gls the list of linked .bil  *)
(* files, from generate_using_gtopo30 the extracted .DEM files found by    *)
(* the glob.                                                               *)
C24_MosaicInputNonEmpty ==
    /\ pc = "gls_mosaic" => bil_list # {}
    /\ pc = "gtopo30_mosaic" => Gtopo30DemsGlob(files) # {}

(* a regional mosaic of fewer tiles than were enumerated *)
C24_Witness ==
    /\ pc = "gls_mosaic"
    /\ missing_count > 0
    /\ Cardinality(bil_list) = 1

(***************************************************************************)
(* generate(): the bounding box and the target grid as a frame             *)
(***************************************************************************)

(* C25: the step that leaves the start of generate() moves each of the     *)
(* four sides of the box outward by 0.2 degrees (2 tenths) and comes       *)
(* before the selection of a source; the box changes in no other step, so  *)
(* coverage validation, tile location, a fallback and the datum adjustment *)
(* all see the same padded box; the target grid changes in no step.        *)
C25_BoxPaddedOnceThenFrozen ==
    [][/\ pc = "generate" /\ pc' # pc =>
            /\ pc' = "select"
            /\ attempts = <<>>
            /\ box'.north = box.north + 2
            /\ box'.south = box.south - 2
            /\ box'.east = box.east + 2
            /\ box'.west = box.west - 2
       /\ pc # "generate" => box' = box /\ pc' # "generate"
       /\ grid' = grid]_vars

(* a fallback has located its GTOPO30 tiles after the regional attempt *)
C25_Witness ==
    /\ attempts = <<"gls", "gtopo30">>
    /\ tile_result # NoTiles
    /\ box.north - box.south >= 4
    /\ grid \in SceneGrids

(***************************************************************************)
(* get_gtopo30_tile_list: coverage of the padded box                       *)
(***************************************************************************)

(* A GTOPO30 tile is named by its northern and western edge; it is 50      *)
(* degrees high, and 40 degrees wide north of the cutoff latitude, 60      *)
(* degrees wide south of it.                                               *)
Gtopo30BandHeight == 500
Gtopo30BandWidth(lat) ==
    IF lat > GTOPO30_TILE_SET_CUTOFF_LATITUDE THEN 400 ELSE 600

(* The cells whose interior meets the box padded by gtopo30_padding; a box *)
(* whose padded west side is east of its padded east side wraps around the *)
(* antimeridian.                                                           *)
Gtopo30CellsMeeting(b) ==
    LET ul_lon == Gtopo30UlLon(b)
        lr_lon == Gtopo30LrLon(b)
        ul_lat == Gtopo30UlLat(b)
        lr_lat == Gtopo30LrLat(b)
        MeetsLat(lat) == lr_lat < lat /\ ul_lat > lat - Gtopo30BandHeight
        MeetsLon(lat, lon) ==
            IF ul_lon <= lr_lon
            THEN ul_lon < lon + Gtopo30BandWidth(lat) /\ lr_lon > lon
            ELSE ul_lon < lon + Gtopo30BandWidth(lat) \/ lr_lon > lon
    IN {c \in LAT_LOCATIONS \X (NORTH_LON_LOCATIONS \cup SOUTH_LON_LOCATIONS) :
          /\ c[2] \in LonLocationsFor(c[1])
          /\ MeetsLat(c[1])
          /\ MeetsLon(c[1], c[2])}

(* C26: whenever get_gtopo30_tile_list returns a list, the list names the  *)
(* tile of every cell of the GTOPO30 grid that the box padded by 1 degree  *)
(* meets, also for a box over more than two latitude or longitude bands    *)
(* and for a box across the antimeridian.                                  *)
C26_EveryMeetingCellListed ==
    (pc = "tiles_output" /\ ~tile_result.raised) =>
        \A c \in Gtopo30CellsMeeting(box) :
            Gtopo30TileName(c[1], c[2]) \in tile_result.tiles

(***************************************************************************)
(* generate(): the number and order of the source attempts                 *)
(***************************************************************************)

Gtopo30Attempts == {i \in 1..Len(attempts) : attempts[i] = "gtopo30"}

(* C27: a run of generate() makes at most two source attempts, at most one *)
(* of them is GTOPO30, and a second attempt is GTOPO30; once GTOPO30 has   *)
(* been attempted no other attempt follows, and a run that has failed      *)
(* takes no further step, so an error of the GTOPO30 attempt ends the run. *)
C27_AtMostTwoAttempts ==
    [][/\ Len(attempts') <= 2
       /\ Cardinality(Gtopo30Attempts') <= 1
       /\ Len(attempts') = 2 => attempts'[2] = "gtopo30"
       /\ Gtopo30Attempts # {} => attempts' = attempts
       /\ pc = "failed" => pc' = "failed" /\ attempts' = attempts]_vars

(* the fallback GTOPO30 attempt has failed and ended the run *)
C27_Witness ==
    /\ pc = "failed"
    /\ attempts = <<"ramp", "gtopo30">>
    /\ error = "ExternalToolFailure"
    /\ tile_result # NoTiles

(***************************************************************************)
(* generate_using_gls: the enumeration is never empty                      *)
(***************************************************************************)

(* C28: for every padded box routed to the regional source, a box across   *)
(* the antimeridian (west greater than east) included, the enumeration of  *)
(* generate_using_gls yields at least one tile, and the attempt never ends *)
(* with the RuntimeError 'Unable to determine tiles'.                      *)
C28_GlsEnumeratesSomeTile ==
    (/\ attempts # <<>>
     /\ attempts[1] = "gls"
     /\ pc # "gls_tiles") =>
        /\ gls_tile_list # {}
        /\ error # "RuntimeError"

(***************************************************************************)
(* generate(): the source label of the XML band                            *)
(***************************************************************************)

(* C29: when generate() reaches add_elevation_band_to_xml, and in the band *)
(* it writes, the source label is the source whose generate_using_* call   *)
(* completed and produced the raster, that is the last source attempted:   *)
(* 'ramp' and 'gls' only when that attempt was the only one, 'gtopo30'     *)
(* when GTOPO30 was used directly or as the fallback.                      *)
C29_LabelIsProducingSource ==
    /\ pc \in {"add_band", "done"} =>
          /\ elevation_source = LastAttempt
          /\ elevation_source = "ramp" => attempts = <<"ramp">>
          /\ elevation_source = "gls" => attempts = <<"gls">>
          /\ ElevationFiles \subseteq files
    /\ pc = "done" => xml_source = elevation_source
    /\ xml_source # "unset" => pc = "done"

(* a band written after the fallback from the regional source *)
C29_Witness ==
    /\ pc = "done"
    /\ attempts = <<"gls", "gtopo30">>
    /\ xml_source = "gtopo30"

----------------------------------------------------------------------------
(* S2SAFE.unpackage of unpackage_s2.py applied to a Sentinel-2 package.    *)
(* call describes the package, the output directory and the working       *)
(* directory on entry; ret holds the working directory of the process, the *)
(* locals mydir, old_s2_format and prodid_dir, and the value returned:     *)
(* <<>> until unpackage returns, then <<ERROR>> or <<SUCCESS>>.            *)

ERROR == 1
SUCCESS == 0

(* kinds of directories under GRANULE: the name contains 'L1C_' only, the  *)
(* name contains 'OPER_MSI_L1C_TL' (and with it 'L1C_'), or neither        *)
GranuleKinds == {"L1C_", "OPER_MSI_L1C_TL", "other"}

WorkingDirectories == {"/work", "/jobs"}
s2dir == "outdir/safe_dirname"

Packages ==
    [infile_exists : BOOLEAN,
     outdir : {"absent", "writable", "read_only"},
     inspire_xml : BOOLEAN,            \* a member ending in INSPIRE.xml
     mtd_msil1c_xml : BOOLEAN,         \* MTD_MSIL1C.xml in the SAFE directory
     oper_mtd_xml : BOOLEAN,           \* an *OPER_MTD_*.xml in the SAFE directory
     granule_dirs : SUBSET GranuleKinds,
     oper_tile_xml : BOOLEAN,          \* an *OPER_MTD_L1C_TL*.xml in the product dir
     mtd_tl_xml : BOOLEAN,             \* MTD_TL.xml in the product dir
     cwd : WorkingDirectories]

InitUnpackage ==
    /\ pc = "s2_input"
    /\ call \in Packages
    /\ ret = [cwd |-> call.cwd, mydir |-> "", old_s2_format |-> FALSE,
              prodid_dir |-> "", result |-> None]
    /\ PipelineIdle

(* return ERROR / return SUCCESS *)
Return(value) ==
    /\ pc' = "s2_returned"
    /\ ret' = [ret EXCEPT !.result = <<value>>]

(* lines 84-89: the input file must exist *)
CheckInfile ==
    /\ pc = "s2_input"
    /\ IF ~call.infile_exists
       THEN Return(ERROR)
       ELSE pc' = "s2_outdir" /\ ret' = ret
    /\ UNCHANGED <<pipeline, call>>

(* lines 91-102: create the output directory or require it to be writable *)
CheckOutdir ==
    /\ pc = "s2_outdir"
    /\ IF call.outdir = "read_only"
       THEN Return(ERROR)
       ELSE pc' = "s2_zip" /\ ret' = ret
    /\ UNCHANGED <<pipeline, call>>

(* lines 104-125: look for INSPIRE.xml among the members of the archive *)
FindInspire ==
    /\ pc = "s2_zip"
    /\ IF ~call.inspire_xml
       THEN Return(ERROR)
       ELSE pc' = "s2_extract" /\ ret' = ret
    /\ UNCHANGED <<pipeline, call>>

(* lines 127-146: extract the archive, remember the working directory in   *)
(* mydir, change to the SAFE directory, make the temporary directory       *)
ExtractAndChdir ==
    /\ pc = "s2_extract"
    /\ ret' = [ret EXCEPT !.mydir = ret.cwd, !.cwd = s2dir]
    /\ pc' = "s2_product_xml"
    /\ UNCHANGED <<pipeline, call>>

(* lines 148-177: MTD_MSIL1C.xml, or an old-format *OPER_MTD_*.xml renamed *)
(* to it                                                                   *)
ProductXml ==
    /\ pc = "s2_product_xml"
    /\ IF call.mtd_msil1c_xml
       THEN /\ pc' = "s2_granule"
            /\ ret' = ret
       ELSE IF call.oper_mtd_xml
       THEN /\ pc' = "s2_granule"
            /\ ret' = [ret EXCEPT !.old_s2_format = TRUE]
       ELSE Return(ERROR)
    /\ UNCHANGED <<pipeline, call>>

(* the directories under GRANULE that the loop of lines 183-198 accepts *)
ProductDirCandidates(old_s2_format, dirs) ==
    IF old_s2_format THEN dirs \cap {"OPER_MSI_L1C_TL"}
    ELSE dirs \cap {"L1C_", "OPER_MSI_L1C_TL"}

(* lines 179-206: the product directory under GRANULE, in glob order *)
GranuleDir ==
    /\ pc = "s2_granule"
    /\ LET found == ProductDirCandidates(ret.old_s2_format, call.granule_dirs)
       IN IF found = {}
          THEN Return(ERROR)
          ELSE /\ pc' = "s2_tile_xml"
               /\ \E d \in found : ret' = [ret EXCEPT !.prodid_dir = d]
    /\ UNCHANGED <<pipeline, call>>

(* lines 208-236: the tile XML; the old format looks for it and returns    *)
(* ERROR when it is missing, the new format copies MTD_TL.xml and          *)
(* shutil.copy raises IOError when it is missing                           *)
TileXml ==
    /\ pc = "s2_tile_xml"
    /\ IF ret.old_s2_format
       THEN IF call.oper_tile_xml
            THEN pc' = "s2_collect" /\ ret' = ret
            ELSE Return(ERROR)
       ELSE IF call.mtd_tl_xml
            THEN pc' = "s2_collect" /\ ret' = ret
            ELSE pc' = "s2_raised" /\ ret' = ret
    /\ UNCHANGED <<pipeline, call>>

(* lines 238-267: copy the images, clean up, os.chdir(mydir), SUCCESS *)
CollectAndReturn ==
    /\ pc = "s2_collect"
    /\ pc' = "s2_returned"
    /\ ret' = [ret EXCEPT !.cwd = ret.mydir, !.result = <<SUCCESS>>]
    /\ UNCHANGED <<pipeline, call>>

NextUnpackage ==
    \/ CheckInfile
    \/ CheckOutdir
    \/ FindInspire
    \/ ExtractAndChdir
    \/ ProductXml
    \/ GranuleDir
    \/ TileXml
    \/ CollectAndReturn

SpecUnpackage == InitUnpackage /\ [][NextUnpackage]_vars

(* C30: whenever unpackage has returned, with SUCCESS or with ERROR, the   *)
(* working directory of the process is the one it had on entry.            *)
C30_ReturnsInEntryDirectory ==
    (pc = "s2_returned" /\ ret.result \in {<<SUCCESS>>, <<ERROR>>}) =>
        ret.cwd = call.cwd

=============================================================================
